---- MODULE Spec2Model ----
(***************************************************************************)
(* Via.js: a controller drives objects that live in a receiver through an  *)
(* ordered message channel.  The controller records operations made on     *)
(* Proxy handles into a command queue, posts the queue as one "cmds"       *)
(* message per flush, and the receiver runs the commands against its id    *)
(* map and answers with one "done" message per batch.                      *)
(***************************************************************************)
EXTENDS Integers, Sequences, FiniteSets, TLC

\* ------------------------------------------------------------------ bounds
\* Total number of operations over a run: the member reads that create a
\* Property Handle, the commands the application appends, and the Object
\* Handles the garbage collector finalizes.
MaxOps == 3

\* --------------------------------------------------- the receiver's objects
\* The receiver's API surface: every real object has a data property "x"
\* and the methods "mk" (returns a new object), "nop" (returns nothing) and
\* "valueOf" (returns the object it is called on; the application calls it
\* on the global object only).  Keys are the members the application reads
\* in every specification.
Keys == {"x", "mk", "nop"}
Methods == {"mk", "nop", "valueOf"}

\* JavaScript values on the receiver.
Undef == [t |-> "undef"]
Prim(n) == [t |-> "prim", n |-> n]
Obj(n) == [t |-> "obj", n |-> n]
Fn(k) == [t |-> "fn", k |-> k]
Shim(id) == [t |-> "shim", id |-> id]

\* The receiver's global object (self).
Root == Obj(0)

\* Map.set / Map.delete / Map.get on a Map modelled as a function.
MapSet(m, k, v) == [x \in (DOMAIN m) \cup {k} |-> IF x = k THEN v ELSE m[x]]
MapDelete(m, k) == [x \in (DOMAIN m) \ {k} |-> m[x]]
MapGet(m, k) == IF k \in DOMAIN m THEN m[k] ELSE Undef

\* base[k]: a property read.  Reading a property of undefined throws; a
\* primitive has none of the properties; an object or function has its own
\* properties, and an object inherits the methods.
GetProp(hp, base, k) ==
    IF base.t = "undef" THEN [ok |-> FALSE, v |-> Undef]
    ELSE IF base.t \in {"obj", "fn", "shim"} /\ base \in DOMAIN hp /\ k \in DOMAIN hp[base]
         THEN [ok |-> TRUE, v |-> hp[base][k]]
    ELSE IF base.t = "obj" /\ k \in Methods THEN [ok |-> TRUE, v |-> Fn(k)]
    ELSE [ok |-> TRUE, v |-> Undef]

\* base[k] = v in strict mode: throws on undefined and on a primitive.
SetProp(hp, base, k, v) ==
    IF base.t \in {"undef", "prim"} THEN [ok |-> FALSE, heap |-> hp]
    ELSE [ok |-> TRUE,
          heap |-> MapSet(hp, base, MapSet(IF base \in DOMAIN hp THEN hp[base] ELSE << >>, k, v))]

\* for (i = 0; i < n; ++i) base = base[path[i]]
RECURSIVE Navigate(_, _, _, _, _)
Navigate(hp, base, path, i, n) ==
    IF i > n THEN [ok |-> TRUE, v |-> base]
    ELSE LET r == GetProp(hp, base, path[i])
         IN  IF r.ok THEN Navigate(hp, r.v, path, i + 1, n) ELSE r

\* path[path.length - 1]: the key "undefined" for an empty path.
LastKey(path) == IF Len(path) = 0 THEN "undefined" ELSE path[Len(path)]

\* The number of real objects allocated so far (the next fresh object).
NextReal(hp) == Cardinality({r \in DOMAIN hp : r.t = "obj"})

\* f(...args) with this = base, for a function of the receiver's own (a
\* shim is called by CallShim); anything else cannot be called.  "mk"
\* returns a new object, "valueOf" the global object, "nop" returns undefined.
Invoke(hp, f) ==
    IF f.t # "fn" THEN [ok |-> FALSE, v |-> Undef, heap |-> hp]
    ELSE IF f.k = "mk"
         THEN [ok |-> TRUE, v |-> Obj(NextReal(hp)), heap |-> MapSet(hp, Obj(NextReal(hp)), << >>)]
    ELSE IF f.k = "valueOf" THEN [ok |-> TRUE, v |-> Root, heap |-> hp]
    ELSE [ok |-> TRUE, v |-> Undef, heap |-> hp]

\* new f(...args): only a function of the receiver's own can be constructed
\* (a shim is an arrow function, and new throws); the result is a new object.
InvokeNew(hp, f) ==
    IF f.t # "fn" THEN [ok |-> FALSE, v |-> Undef, heap |-> hp]
    ELSE [ok |-> TRUE, v |-> Obj(NextReal(hp)), heap |-> MapSet(hp, Obj(NextReal(hp)), << >>)]

\* ------------------------------------------------------ the wire descriptors
\* [0, value], [1, id], [2, id], [3, id, path]
DPrim(v) == [tag |-> 0, value |-> v]
DObj(id) == [tag |-> 1, id |-> id]
DCallback(id) == [tag |-> 2, id |-> id]
DProp(id, path) == [tag |-> 3, id |-> id, path |-> path]

\* The commands: [0, objectId, path, args, returnObjectId], [1, objectId, path,
\* value], [2, getId, objectId, path] (path null for an Object Handle) and
\* [3, objectId, path, args, returnObjectId].
CallCmd(objectId, path, args, returnObjectId) ==
    [type |-> 0, objectId |-> objectId, path |-> path, args |-> args,
     returnObjectId |-> returnObjectId]
SetCmd(objectId, path, value) ==
    [type |-> 1, objectId |-> objectId, path |-> path, value |-> value]
GetCmd(getId, objectId, path, nullPath) ==
    [type |-> 2, getId |-> getId, objectId |-> objectId, path |-> path,
     nullPath |-> nullPath]
ConstructCmd(objectId, path, args, returnObjectId) ==
    [type |-> 3, objectId |-> objectId, path |-> path, args |-> args,
     returnObjectId |-> returnObjectId]

\* ------------------------------------------------------------- the receiver
\* No value: the field of a log entry that the command did not reach.
NoVal == [t |-> "none"]

\* idMap.get(id), and the throw when it is undefined.
IdToObject(im, id) == [ok |-> MapGet(im, id).t # "undef", v |-> MapGet(im, id)]

\* idMap.get(id), the throw when it is undefined, then every segment of the path.
IdToObjectProperty(im, hp, id, path) ==
    IF MapGet(im, id).t = "undef" THEN [ok |-> FALSE, v |-> Undef]
    ELSE Navigate(hp, MapGet(im, id), path, 1, Len(path))

\* undefined, null, boolean, number, string and the binary types are posted as they are.
CanStructuredClone(o) == o.t \in {"undef", "prim"}

\* A variant of ObjectToId that leaves the counter where it is.
ObjectToId_SameId(rs, object) ==
    [rs EXCEPT !.idMap = MapSet(rs.idMap, rs.nextObjectId, object)]

\* The receiver allocates the next negative id for the object.
ObjectToId(rs, object) ==
    [rs EXCEPT !.idMap = MapSet(rs.idMap, rs.nextObjectId, object),
               !.nextObjectId = rs.nextObjectId - 1]

\* A variant of WrapArg that gives every value an id.
WrapArg_Always(rs, arg) == [d |-> DObj(rs.nextObjectId), rs |-> ObjectToId(rs, arg)]

\* A variant of WrapArg that gives an object that is in the id map already
\* the id it is under, as a reverse map from object to id would.
WrapArg_Recycle(rs, arg) ==
    IF CanStructuredClone(arg) THEN [d |-> DPrim(arg), rs |-> rs]
    ELSE IF \E id \in DOMAIN rs.idMap : rs.idMap[id] = arg
         THEN [d |-> DObj(CHOOSE id \in DOMAIN rs.idMap : rs.idMap[id] = arg), rs |-> rs]
    ELSE [d |-> DObj(rs.nextObjectId), rs |-> ObjectToId(rs, arg)]

\* The descriptor of a value sent back, and the receiver state after wrapping it.
WrapArg(rs, arg) ==
    IF CanStructuredClone(arg) THEN [d |-> DPrim(arg), rs |-> rs]
    ELSE [d |-> DObj(rs.nextObjectId), rs |-> ObjectToId(rs, arg)]

\* args.map(WrapArg) on the receiver.
RECURSIVE WrapArgsRecv(_, _, _, _)
WrapArgsRecv(rs, args, i, acc) ==
    IF i > Len(args) THEN [d |-> acc, rs |-> rs]
    ELSE LET w == WrapArg(rs, args[i])
         IN  WrapArgsRecv(w.rs, args, i + 1, Append(acc, w.d))

\* The value of a descriptor sent by the controller.
UnwrapArg(rs, arr) ==
    CASE arr.tag = 0 -> [ok |-> TRUE, v |-> arr.value]
      [] arr.tag = 1 -> IdToObject(rs.idMap, arr.id)
      [] arr.tag = 2 -> [ok |-> TRUE, v |-> Shim(arr.id)]
      [] arr.tag = 3 -> IdToObjectProperty(rs.idMap, rs.heap, arr.id, arr.path)
      [] OTHER -> [ok |-> FALSE, v |-> Undef]

\* argsData.map(UnwrapArg): throws at the first argument that does.
UnwrapArgs(rs, argsData) ==
    [ok |-> \A i \in 1..Len(argsData) : UnwrapArg(rs, argsData[i]).ok,
     v |-> [i \in 1..Len(argsData) |-> UnwrapArg(rs, argsData[i]).v]]

\* One entry of the receiver's execution log: the batch, the command, how it
\* ended ("ok", "failed", "skipped"), the object its id resolved to and the
\* value a call returned.
LogEntry(fid, cmd, st, obj, ret) ==
    [fid |-> fid, cmd |-> cmd, st |-> st, obj |-> obj, ret |-> ret]

\* The entry of a Set or a Get that ran: base is the object whose property
\* was written or read (the target itself for a Get without a path), ret the
\* value written or read.
AccessEntry(fid, cmd, obj, base, value) ==
    [fid |-> fid, cmd |-> cmd, st |-> "ok", obj |-> obj, ret |-> value, base |-> base]

\* A command that throws: the loop of OnCommandsMessage is left.
Throw(rs, fid, cmd, obj) ==
    [rs EXCEPT !.ok = FALSE, !.log = Append(rs.log, LogEntry(fid, cmd, "failed", obj, NoVal))]

\* The entry of a call that called the shim of the callback id: the shim
\* returned undefined.
ShimEntry(fid, cmd, obj, id) ==
    [fid |-> fid, cmd |-> cmd, st |-> "ok", obj |-> obj, ret |-> Undef, shim |-> id]

\* The function at the path is a shim made by GetCallbackShim(id): the call
\* posts one "callback" message with the id and the wrapped arguments, at
\* once, and returns undefined, which ViaCall binds under the return id.
CallShim(rs, fid, cmd, obj, id, args) ==
    LET w == WrapArgsRecv(rs, args, 1, << >>)
    IN  [w.rs EXCEPT !.posted = Append(rs.posted, [type |-> "callback", id |-> id, args |-> w.d]),
                     !.idMap = MapSet(w.rs.idMap, cmd.returnObjectId, Undef),
                     !.log = Append(rs.log, ShimEntry(fid, cmd, obj, id))]

\* A variant of ViaCall that binds the result under an id of the receiver.
ViaCall_OwnId(rs, fid, cmd) ==
    LET obj == IdToObject(rs.idMap, cmd.objectId)
        args == UnwrapArgs(rs, cmd.args)
        len == Len(cmd.path)
        base == Navigate(rs.heap, obj.v, cmd.path, 1, len - 1)
        f == GetProp(rs.heap, base.v, LastKey(cmd.path))
        r == Invoke(rs.heap, f.v)
    IN  IF ~obj.ok \/ ~args.ok \/ ~base.ok \/ ~f.ok \/ ~r.ok THEN Throw(rs, fid, cmd, NoVal)
        ELSE [rs EXCEPT !.heap = r.heap,
                        !.idMap = MapSet(rs.idMap, rs.nextObjectId, r.v),
                        !.nextObjectId = rs.nextObjectId - 1,
                        !.log = Append(rs.log, LogEntry(fid, cmd, "ok", obj.v, r.v))]

ViaCall(rs, fid, cmd) ==
    LET obj == IdToObject(rs.idMap, cmd.objectId)
        args == UnwrapArgs(rs, cmd.args)
        len == Len(cmd.path)
        base == Navigate(rs.heap, obj.v, cmd.path, 1, len - 1)
        f == GetProp(rs.heap, base.v, LastKey(cmd.path))
        r == Invoke(rs.heap, f.v)
    IN  IF ~obj.ok THEN Throw(rs, fid, cmd, NoVal)
        ELSE IF ~args.ok THEN Throw(rs, fid, cmd, obj.v)
        ELSE IF ~base.ok THEN Throw(rs, fid, cmd, obj.v)
        ELSE IF ~f.ok THEN Throw(rs, fid, cmd, obj.v)
        ELSE IF f.v.t = "shim" THEN CallShim(rs, fid, cmd, obj.v, f.v.id, args.v)
        ELSE IF ~r.ok THEN Throw(rs, fid, cmd, obj.v)
        ELSE [rs EXCEPT !.heap = r.heap,
                        !.idMap = MapSet(rs.idMap, cmd.returnObjectId, r.v),
                        !.log = Append(rs.log, LogEntry(fid, cmd, "ok", obj.v, r.v))]

\* A variant of ViaConstruct that gives the result an id of the receiver as well.
ViaConstruct_Allocates(rs, fid, cmd) ==
    LET obj == IdToObject(rs.idMap, cmd.objectId)
        args == UnwrapArgs(rs, cmd.args)
        len == Len(cmd.path)
        base == Navigate(rs.heap, obj.v, cmd.path, 1, len - 1)
        f == GetProp(rs.heap, base.v, LastKey(cmd.path))
        r == InvokeNew(rs.heap, f.v)
    IN  IF ~obj.ok \/ ~args.ok \/ ~base.ok \/ ~f.ok \/ ~r.ok THEN Throw(rs, fid, cmd, NoVal)
        ELSE [rs EXCEPT !.heap = r.heap,
                        !.idMap = MapSet(MapSet(rs.idMap, cmd.returnObjectId, r.v),
                                         rs.nextObjectId, r.v),
                        !.nextObjectId = rs.nextObjectId - 1,
                        !.log = Append(rs.log, LogEntry(fid, cmd, "ok", obj.v, r.v))]

\* new (the function at the path)(...args), bound under the return id of the command.
ViaConstruct(rs, fid, cmd) ==
    LET obj == IdToObject(rs.idMap, cmd.objectId)
        args == UnwrapArgs(rs, cmd.args)
        len == Len(cmd.path)
        base == Navigate(rs.heap, obj.v, cmd.path, 1, len - 1)
        f == GetProp(rs.heap, base.v, LastKey(cmd.path))
        r == InvokeNew(rs.heap, f.v)
    IN  IF ~obj.ok THEN Throw(rs, fid, cmd, NoVal)
        ELSE IF ~args.ok THEN Throw(rs, fid, cmd, obj.v)
        ELSE IF ~base.ok THEN Throw(rs, fid, cmd, obj.v)
        ELSE IF ~f.ok THEN Throw(rs, fid, cmd, obj.v)
        ELSE IF ~r.ok THEN Throw(rs, fid, cmd, obj.v)
        ELSE [rs EXCEPT !.heap = r.heap,
                        !.idMap = MapSet(rs.idMap, cmd.returnObjectId, r.v),
                        !.log = Append(rs.log, LogEntry(fid, cmd, "ok", obj.v, r.v))]

\* A variant of ViaSet that navigates and unwraps but leaves the property as
\* it was.
ViaSet_NoAssign(rs, fid, cmd) ==
    LET obj == IdToObject(rs.idMap, cmd.objectId)
        value == UnwrapArg(rs, cmd.value)
        len == Len(cmd.path)
        base == Navigate(rs.heap, obj.v, cmd.path, 1, len - 1)
        w == SetProp(rs.heap, base.v, LastKey(cmd.path), value.v)
    IN  IF ~obj.ok \/ ~value.ok \/ ~base.ok \/ ~w.ok THEN Throw(rs, fid, cmd, NoVal)
        ELSE [rs EXCEPT !.log = Append(rs.log, AccessEntry(fid, cmd, obj.v, base.v, value.v))]

\* base[propertyName] = value, with the value unwrapped before the path is walked.
ViaSet(rs, fid, cmd) ==
    LET obj == IdToObject(rs.idMap, cmd.objectId)
        value == UnwrapArg(rs, cmd.value)
        len == Len(cmd.path)
        base == Navigate(rs.heap, obj.v, cmd.path, 1, len - 1)
        w == SetProp(rs.heap, base.v, LastKey(cmd.path), value.v)
    IN  IF ~obj.ok THEN Throw(rs, fid, cmd, NoVal)
        ELSE IF ~value.ok THEN Throw(rs, fid, cmd, obj.v)
        ELSE IF ~base.ok THEN Throw(rs, fid, cmd, obj.v)
        ELSE IF ~w.ok THEN Throw(rs, fid, cmd, obj.v)
        ELSE [rs EXCEPT !.heap = w.heap,
                        !.log = Append(rs.log, AccessEntry(fid, cmd, obj.v, base.v, value.v))]

\* A variant of the push that tags the result with the object id of the command.
PushGetResult_ObjectId(rs, fid, cmd, obj, base, value) ==
    LET w == WrapArg(rs, value)
    IN  [w.rs EXCEPT !.getResults = Append(rs.getResults, [getId |-> cmd.objectId, value |-> w.d]),
                     !.log = Append(rs.log, AccessEntry(fid, cmd, obj, base, value))]

\* getResults.push([getId, WrapArg(value)]) on the state left by WrapArg.
PushGetResult(rs, fid, cmd, obj, base, value) ==
    LET w == WrapArg(rs, value)
    IN  [w.rs EXCEPT !.getResults = Append(rs.getResults, [getId |-> cmd.getId, value |-> w.d]),
                     !.log = Append(rs.log, AccessEntry(fid, cmd, obj, base, value))]

ViaGet(rs, fid, cmd) ==
    LET obj == IdToObject(rs.idMap, cmd.objectId)
        len == Len(cmd.path)
        base == Navigate(rs.heap, obj.v, cmd.path, 1, len - 1)
        value == GetProp(rs.heap, base.v, LastKey(cmd.path))
    IN  IF ~obj.ok THEN Throw(rs, fid, cmd, NoVal)
        ELSE IF cmd.nullPath THEN PushGetResult(rs, fid, cmd, obj.v, obj.v, obj.v)
        ELSE IF ~base.ok THEN Throw(rs, fid, cmd, obj.v)
        ELSE IF ~value.ok THEN Throw(rs, fid, cmd, obj.v)
        ELSE PushGetResult(rs, fid, cmd, obj.v, base.v, value.v)

RunCommand(rs, fid, arr) ==
    CASE arr.type = 0 -> ViaCall(rs, fid, arr)
      [] arr.type = 1 -> ViaSet(rs, fid, arr)
      [] arr.type = 2 -> ViaGet(rs, fid, arr)
      [] arr.type = 3 -> ViaConstruct(rs, fid, arr)
      [] OTHER -> Throw(rs, fid, arr, NoVal)

\* A variant of the loop that goes on with the next command after a throw.
RECURSIVE RunCommands_KeepGoing(_, _, _, _)
RunCommands_KeepGoing(rs, fid, cmds, i) ==
    IF i > Len(cmds) THEN rs
    ELSE LET r == RunCommand([rs EXCEPT !.ok = TRUE], fid, cmds[i])
         IN  RunCommands_KeepGoing([r EXCEPT !.ok = rs.ok /\ r.ok], fid, cmds, i + 1)

\* for (const cmd of data.cmds) RunCommand(cmd, getResults): a throw leaves
\* the loop, and the commands after it are not run (logged as skipped).
RECURSIVE RunCommands(_, _, _, _)
RunCommands(rs, fid, cmds, i) ==
    IF i > Len(cmds) THEN rs
    ELSE IF ~rs.ok
         THEN RunCommands([rs EXCEPT !.log = Append(rs.log,
                               LogEntry(fid, cmds[i], "skipped", NoVal, NoVal))],
                          fid, cmds, i + 1)
    ELSE RunCommands(RunCommand(rs, fid, cmds[i]), fid, cmds, i + 1)

\* ----------------------------------------------------------- the controller
\* JavaScript values on the controller: a primitive, an Object Handle (a Proxy
\* with an object id), a Property Handle (a Proxy of props[h]), a function and
\* an ordinary object.
CPrim(v) == [k |-> "prim", v |-> v]
CObj(id) == [k |-> "objh", id |-> id]
CProp(h) == [k |-> "proph", h |-> h]
CFunc(f) == [k |-> "func", f |-> f]
CPlain == [k |-> "plain"]

VARIABLES
    nextObjectId,           \* next object id to allocate (positive)
    queue,                  \* commands waiting to be posted
    nextGetId,              \* next get request id
    pendingGetResolves,     \* get ids with a resolve function in the map
    nextFlushId,            \* next flush id
    pendingFlushResolves,   \* flush ids with a resolve function in the map
    isPendingFlush,         \* a flush was set to run at the next microtask
    nextCallbackId, callbackToId, idToCallback,
    finalizeTimerId,        \* -1, or the id of the armed timer
    finalizeIdQueue,        \* ids finalized and not yet posted
    microtasks,             \* Via.Flush jobs in the microtask queue
    objHandles,             \* id -> number of live Object Handles with that id
    props,                  \* the Property Handles: objectId, path, nextCache
    getSettled,             \* get id -> the values its resolve was called with
    flushSettled,           \* flush id -> the number of calls of its resolve
    c2r, c2rRead,           \* messages posted by the controller, and how many were delivered
    r2c, r2cRead,           \* messages posted by the receiver, and how many were delivered
    idMap,                  \* the receiver's id -> object map
    recvNextObjectId,       \* the receiver's next object id (negative)
    heap,                   \* the receiver's objects: object -> own properties
    rlog,                   \* the receiver's execution log
    rthrown,                \* the flush ids of the batches whose error left ViaReceiver.OnMessage
    called,                 \* the application's functions run by OnCallback, with their arguments
    thrown,                 \* the errors thrown out of Via.OnMessage, in order
    faults,                 \* acknowledgments the channel delivered beyond those of the receiver
    wrapErrors,             \* the operations that Via._WrapArg left with "invalid argument", in order
    appended,               \* every command given to Via._AddToQueue, in order
    burstStart,             \* Len(appended) when the last scheduled flush ran
    burstFlushed            \* Via.Flush was called by the application since then

ctlIds == <<nextObjectId, nextGetId, nextCallbackId, callbackToId, idToCallback>>
ctlQueue == <<queue, isPendingFlush, microtasks, appended>>
ctlFlush == <<nextFlushId, pendingFlushResolves, flushSettled>>
ctlGets == <<pendingGetResolves, getSettled>>
ctlFinal == <<finalizeTimerId, finalizeIdQueue>>
ctlHandles == <<objHandles, props>>
ctlApp == <<called, thrown, faults, wrapErrors>>
burstVars == <<burstStart, burstFlushed>>
recvVars == <<idMap, recvNextObjectId, heap, rlog, rthrown>>
vars == <<ctlIds, ctlQueue, ctlFlush, ctlGets, ctlFinal, ctlHandles, ctlApp, burstVars,
          c2r, c2rRead, r2c, r2cRead, recvVars>>

\* The messages in flight.
ToReceiver == SubSeq(c2r, c2rRead + 1, Len(c2r))
ToController == SubSeq(r2c, r2cRead + 1, Len(r2c))

Init ==
    /\ nextObjectId = 1
    /\ queue = << >>
    /\ nextGetId = 0
    /\ pendingGetResolves = {}
    /\ nextFlushId = 0
    /\ pendingFlushResolves = {}
    /\ isPendingFlush = FALSE
    /\ nextCallbackId = 0
    /\ callbackToId = << >>
    /\ idToCallback = << >>
    /\ finalizeTimerId = -1
    /\ finalizeIdQueue = << >>
    /\ microtasks = 0
    /\ objHandles = (0 :> 1)
    /\ props = << >>
    /\ getSettled = << >>
    /\ flushSettled = << >>
    /\ c2r = << >> /\ c2rRead = 0
    /\ r2c = << >> /\ r2cRead = 0
    /\ idMap = (0 :> Root)
    /\ recvNextObjectId = -1
    /\ heap = (Root :> << >>) @@ [f \in {Fn(k) : k \in Methods} |-> << >>]
    /\ rlog = << >>
    /\ rthrown = << >>
    /\ called = << >>
    /\ thrown = << >>
    /\ faults = 0
    /\ wrapErrors = << >>
    /\ appended = << >>
    /\ burstStart = 0
    /\ burstFlushed = FALSE

\* Via._MakeObject(id): one more Object Handle with this id.
MakeObject(oh, id) == MapSet(oh, id, (IF id \in DOMAIN oh THEN oh[id] ELSE 0) + 1)

\* Via._MakeProperty(objectId, path): a Property Handle with an empty cache.
MakeProperty(objectId, path) == [objectId |-> objectId, path |-> path, nextCache |-> << >>]

\* The operations made so far: Property Handles created, commands appended,
\* Object Handles finalized (an id is handed out in one Object Handle),
\* acknowledgments added by a faulty channel, operations that threw in
\* Via._WrapArg, and callback shims invoked.
Ops ==
    Len(appended) + Len(props) + Cardinality({i \in DOMAIN objHandles : objHandles[i] = 0})
    + faults + Len(wrapErrors) + Cardinality({i \in 1..Len(r2c) : r2c[i].type = "callback"})

\* The Object Handles the application still holds.
LiveIds == {id \in DOMAIN objHandles : objHandles[id] > 0}

\* A variant of ViaObjectHandler.get that fetches the property at once.
ObjectHandlerGet_Eager(id, property) ==
    /\ id \in LiveIds
    /\ Ops < MaxOps
    /\ props' = Append(props, MakeProperty(id, <<property>>))
    /\ queue' = Append(queue, GetCmd(nextGetId, id, <<property>>, FALSE))
    /\ appended' = Append(appended, GetCmd(nextGetId, id, <<property>>, FALSE))
    /\ isPendingFlush' = TRUE
    /\ microtasks' = IF isPendingFlush THEN microtasks ELSE microtasks + 1
    /\ UNCHANGED <<ctlIds, ctlFlush, ctlGets, ctlFinal, objHandles, ctlApp,
                   burstVars, c2r, c2rRead, r2c, r2cRead, recvVars>>

\* ViaObjectHandler.get: a new Property Handle with the path [property].
ObjectHandlerGet(id, property) ==
    /\ id \in LiveIds
    /\ Ops < MaxOps
    /\ props' = Append(props, MakeProperty(id, <<property>>))
    /\ UNCHANGED <<ctlIds, ctlQueue, ctlFlush, ctlGets, ctlFinal, objHandles, ctlApp,
                   burstVars, c2r, c2rRead, r2c, r2cRead, recvVars>>

\* ViaPropertyHandler.get: the cached Property Handle of this key, or a new
\* one with the path extended by the key, which is then cached.
PropertyHandlerGet(h, property) ==
    /\ h \in 1..Len(props)
    /\ IF property \in DOMAIN props[h].nextCache
       THEN UNCHANGED props
       ELSE /\ Ops < MaxOps
            /\ props' = Append([props EXCEPT ![h].nextCache =
                                    MapSet(props[h].nextCache, property, Len(props) + 1)],
                               MakeProperty(props[h].objectId, Append(props[h].path, property)))
    /\ UNCHANGED <<ctlIds, ctlQueue, ctlFlush, ctlGets, ctlFinal, objHandles, ctlApp,
                   burstVars, c2r, c2rRead, r2c, r2cRead, recvVars>>

\* A variant of GetCallbackId that allocates an id at every use.
GetCallbackId_Fresh(cb, func) ==
    [id |-> cb.nextCallbackId,
     cb |-> [nextCallbackId |-> cb.nextCallbackId + 1,
             callbackToId |-> MapSet(cb.callbackToId, func, cb.nextCallbackId),
             idToCallback |-> MapSet(cb.idToCallback, cb.nextCallbackId, func)]]

\* GetCallbackId(func): the id of the function, allocated at its first use.
GetCallbackId(cb, func) ==
    IF func \in DOMAIN cb.callbackToId THEN [id |-> cb.callbackToId[func], cb |-> cb]
    ELSE [id |-> cb.nextCallbackId,
          cb |-> [nextCallbackId |-> cb.nextCallbackId + 1,
                  callbackToId |-> MapSet(cb.callbackToId, func, cb.nextCallbackId),
                  idToCallback |-> MapSet(cb.idToCallback, cb.nextCallbackId, func)]]

\* A variant of Via._WrapArg that takes a Property Handle for an Object Handle
\* and posts a value of no known kind as it is.
ViaWrapArg_Lax(cb, arg) ==
    CASE arg.k = "objh" -> [ok |-> TRUE, d |-> DObj(arg.id), cb |-> cb]
      [] arg.k = "proph" -> [ok |-> TRUE, d |-> DObj(props[arg.h].objectId), cb |-> cb]
      [] arg.k = "func" ->
            [ok |-> TRUE, d |-> DCallback(GetCallbackId(cb, arg.f).id),
             cb |-> GetCallbackId(cb, arg.f).cb]
      [] arg.k = "prim" -> [ok |-> TRUE, d |-> DPrim(arg.v), cb |-> cb]
      [] OTHER -> [ok |-> TRUE, d |-> DPrim(Undef), cb |-> cb]

\* Via._WrapArg(arg): the descriptor of a value, the callback maps after it,
\* and whether it threw.
ViaWrapArg(cb, arg) ==
    CASE arg.k = "objh" -> [ok |-> TRUE, d |-> DObj(arg.id), cb |-> cb]
      [] arg.k = "proph" ->
            [ok |-> TRUE, d |-> DProp(props[arg.h].objectId, props[arg.h].path), cb |-> cb]
      [] arg.k = "func" ->
            [ok |-> TRUE, d |-> DCallback(GetCallbackId(cb, arg.f).id),
             cb |-> GetCallbackId(cb, arg.f).cb]
      [] arg.k = "prim" -> [ok |-> TRUE, d |-> DPrim(arg.v), cb |-> cb]
      [] OTHER -> [ok |-> FALSE, d |-> DPrim(Undef), cb |-> cb]

\* argumentsList.map(Via._WrapArg): stops at the first value that throws.
RECURSIVE WrapArgs(_, _, _, _)
WrapArgs(cb, argumentsList, i, acc) ==
    IF i > Len(argumentsList) THEN [ok |-> TRUE, d |-> acc, cb |-> cb]
    ELSE LET w == ViaWrapArg(cb, argumentsList[i])
         IN  IF w.ok THEN WrapArgs(w.cb, argumentsList, i + 1, Append(acc, w.d))
             ELSE [ok |-> FALSE, d |-> acc, cb |-> w.cb]

\* The callback maps as one record.
Callbacks ==
    [nextCallbackId |-> nextCallbackId, callbackToId |-> callbackToId,
     idToCallback |-> idToCallback]

SetCallbacks(cb) ==
    /\ nextCallbackId' = cb.nextCallbackId
    /\ callbackToId' = cb.callbackToId
    /\ idToCallback' = cb.idToCallback

\* A variant of Via._AddToQueue that puts the command at the front of the queue.
AddToQueue_Unshift(d) ==
    /\ queue' = <<d>> \o queue
    /\ appended' = Append(appended, d)
    /\ isPendingFlush' = TRUE
    /\ microtasks' = IF isPendingFlush THEN microtasks ELSE microtasks + 1

\* A variant of Via._AddToQueue that schedules no flush.
AddToQueue_NoSchedule(d) ==
    /\ queue' = Append(queue, d)
    /\ appended' = Append(appended, d)
    /\ isPendingFlush' = TRUE
    /\ microtasks' = microtasks

\* Via._AddToQueue(d): push, and schedule a flush unless one is pending.
AddToQueue(d) ==
    /\ queue' = Append(queue, d)
    /\ appended' = Append(appended, d)
    /\ isPendingFlush' = TRUE
    /\ microtasks' = IF isPendingFlush THEN microtasks ELSE microtasks + 1

\* The values the application passes as arguments and writes.
ArgValues == {CPrim(Prim(1))}
ArgLists == {<<CPrim(Prim(1)), CObj(0)>>}
\* The keys the application writes.
WriteKeys == {"x"}
\* The keys the application reads: the methods from the global object only.
ReadKeys(id) == IF id = 0 THEN Keys ELSE {"x"}
NestedKeys == {"x"}

\* ViaObjectHandler.set: a set command with the path [property].
ObjectHandlerSet(id, property, value) ==
    LET w == ViaWrapArg(Callbacks, value)
    IN  /\ id \in LiveIds
        /\ Ops < MaxOps
        /\ SetCallbacks(w.cb)
        /\ IF w.ok THEN AddToQueue(SetCmd(id, <<property>>, w.d)) ELSE UNCHANGED ctlQueue
        /\ wrapErrors' = IF w.ok THEN wrapErrors ELSE Append(wrapErrors, "set")
        /\ UNCHANGED <<nextObjectId, nextGetId, ctlFlush, ctlGets, ctlFinal, ctlHandles,
                       called, thrown, faults, burstVars, c2r, c2rRead, r2c, r2cRead, recvVars>>

\* A variant of ViaPropertyHandler.set that sends the path of the handle as it is.
PropertyHandlerSet_ParentPath(h, property, value) ==
    LET w == ViaWrapArg(Callbacks, value)
    IN  /\ h \in 1..Len(props)
        /\ Ops < MaxOps
        /\ SetCallbacks(w.cb)
        /\ IF w.ok
           THEN AddToQueue(SetCmd(props[h].objectId, props[h].path, w.d))
           ELSE UNCHANGED ctlQueue
        /\ wrapErrors' = IF w.ok THEN wrapErrors ELSE Append(wrapErrors, "set")
        /\ UNCHANGED <<nextObjectId, nextGetId, ctlFlush, ctlGets, ctlFinal, ctlHandles,
                       called, thrown, faults, burstVars, c2r, c2rRead, r2c, r2cRead, recvVars>>

\* ViaPropertyHandler.set: a set command with the path extended by the property.
PropertyHandlerSet(h, property, value) ==
    LET w == ViaWrapArg(Callbacks, value)
    IN  /\ h \in 1..Len(props)
        /\ Ops < MaxOps
        /\ SetCallbacks(w.cb)
        /\ IF w.ok
           THEN AddToQueue(SetCmd(props[h].objectId, Append(props[h].path, property), w.d))
           ELSE UNCHANGED ctlQueue
        /\ wrapErrors' = IF w.ok THEN wrapErrors ELSE Append(wrapErrors, "set")
        /\ UNCHANGED <<nextObjectId, nextGetId, ctlFlush, ctlGets, ctlFinal, ctlHandles,
                       called, thrown, faults, burstVars, c2r, c2rRead, r2c, r2cRead, recvVars>>

\* A variant of ViaPropertyHandler.apply that adds the command before the
\* arguments are wrapped, with the descriptors of those wrapped at the throw.
PropertyHandlerApply_QueueFirst(h, argumentsList) ==
    LET w == WrapArgs(Callbacks, argumentsList, 1, << >>)
    IN  /\ h \in 1..Len(props)
        /\ Ops < MaxOps
        /\ nextObjectId' = nextObjectId + 1
        /\ SetCallbacks(w.cb)
        /\ AddToQueue(CallCmd(props[h].objectId, props[h].path, w.d, nextObjectId))
        /\ objHandles' = IF w.ok THEN MakeObject(objHandles, nextObjectId) ELSE objHandles
        /\ wrapErrors' = IF w.ok THEN wrapErrors ELSE Append(wrapErrors, "call")
        /\ UNCHANGED <<nextGetId, ctlFlush, ctlGets, ctlFinal, props, called, thrown, faults,
                       burstVars, c2r, c2rRead, r2c, r2cRead, recvVars>>

\* ViaPropertyHandler.apply: allocate the return id, add a call command, and
\* return the Object Handle of the return id; a throw of Via._WrapArg leaves
\* the trap after the id was taken and before the command is added.
PropertyHandlerApply(h, argumentsList) ==
    LET w == WrapArgs(Callbacks, argumentsList, 1, << >>)
    IN  /\ h \in 1..Len(props)
        /\ Ops < MaxOps
        /\ nextObjectId' = nextObjectId + 1
        /\ SetCallbacks(w.cb)
        /\ IF w.ok
           THEN /\ AddToQueue(CallCmd(props[h].objectId, props[h].path, w.d, nextObjectId))
                /\ objHandles' = MakeObject(objHandles, nextObjectId)
           ELSE UNCHANGED <<ctlQueue, objHandles>>
        /\ wrapErrors' = IF w.ok THEN wrapErrors ELSE Append(wrapErrors, "call")
        /\ UNCHANGED <<nextGetId, ctlFlush, ctlGets, ctlFinal, props, called, thrown, faults,
                       burstVars, c2r, c2rRead, r2c, r2cRead, recvVars>>

\* A variant of ViaPropertyHandler.construct that reads the id counter and
\* leaves it where it is.
PropertyHandlerConstruct_SameId(h, argumentsList) ==
    LET w == WrapArgs(Callbacks, argumentsList, 1, << >>)
    IN  /\ h \in 1..Len(props)
        /\ Ops < MaxOps
        /\ nextObjectId' = nextObjectId
        /\ SetCallbacks(w.cb)
        /\ IF w.ok
           THEN /\ AddToQueue(ConstructCmd(props[h].objectId, props[h].path, w.d, nextObjectId))
                /\ objHandles' = MakeObject(objHandles, nextObjectId)
           ELSE UNCHANGED <<ctlQueue, objHandles>>
        /\ wrapErrors' = IF w.ok THEN wrapErrors ELSE Append(wrapErrors, "construct")
        /\ UNCHANGED <<nextGetId, ctlFlush, ctlGets, ctlFinal, props, called, thrown, faults,
                       burstVars, c2r, c2rRead, r2c, r2cRead, recvVars>>

\* ViaPropertyHandler.construct: the same with a construct command.
PropertyHandlerConstruct(h, argumentsList) ==
    LET w == WrapArgs(Callbacks, argumentsList, 1, << >>)
    IN  /\ h \in 1..Len(props)
        /\ Ops < MaxOps
        /\ nextObjectId' = nextObjectId + 1
        /\ SetCallbacks(w.cb)
        /\ IF w.ok
           THEN /\ AddToQueue(ConstructCmd(props[h].objectId, props[h].path, w.d, nextObjectId))
                /\ objHandles' = MakeObject(objHandles, nextObjectId)
           ELSE UNCHANGED <<ctlQueue, objHandles>>
        /\ wrapErrors' = IF w.ok THEN wrapErrors ELSE Append(wrapErrors, "construct")
        /\ UNCHANGED <<nextGetId, ctlFlush, ctlGets, ctlFinal, props, called, thrown, faults,
                       burstVars, c2r, c2rRead, r2c, r2cRead, recvVars>>

\* A variant of AddGet that queues the command and registers no promise.
AddGet_NoPending(objectId, path, nullPath) ==
    /\ Ops < MaxOps
    /\ nextGetId' = nextGetId + 1
    /\ AddToQueue(GetCmd(nextGetId, objectId, path, nullPath))
    /\ pendingGetResolves' = pendingGetResolves
    /\ getSettled' = MapSet(getSettled, nextGetId, << >>)
    /\ UNCHANGED <<nextObjectId, nextCallbackId, callbackToId, idToCallback, ctlFlush,
                   ctlFinal, ctlHandles, ctlApp, burstVars, c2r, c2rRead, r2c, r2cRead,
                   recvVars>>

\* AddGet(objectId, path): a get command under a new get id, and a pending
\* promise registered under that id.
AddGet(objectId, path, nullPath) ==
    /\ Ops < MaxOps
    /\ nextGetId' = nextGetId + 1
    /\ AddToQueue(GetCmd(nextGetId, objectId, path, nullPath))
    /\ pendingGetResolves' = pendingGetResolves \cup {nextGetId}
    /\ getSettled' = MapSet(getSettled, nextGetId, << >>)
    /\ UNCHANGED <<nextObjectId, nextCallbackId, callbackToId, idToCallback, ctlFlush,
                   ctlFinal, ctlHandles, ctlApp, burstVars, c2r, c2rRead, r2c, r2cRead,
                   recvVars>>

\* self.get(proxy) of an Object Handle: the path is null.
GetOfObject(id) ==
    /\ id \in LiveIds
    /\ AddGet(id, << >>, TRUE)

\* self.get(proxy) of a Property Handle.
GetOfProperty(h) ==
    /\ h \in 1..Len(props)
    /\ AddGet(props[h].objectId, props[h].path, FALSE)

\* A variant of Via.Flush without the test of the empty queue.
Flush_NoEmptyTest ==
    /\ isPendingFlush' = FALSE
    /\ c2r' = Append(c2r, [type |-> "cmds", cmds |-> queue, flushId |-> nextFlushId])
    /\ nextFlushId' = nextFlushId + 1
    /\ queue' = << >>
    /\ pendingFlushResolves' = pendingFlushResolves \cup {nextFlushId}
    /\ flushSettled' = MapSet(flushSettled, nextFlushId, 0)

\* A variant of Via.Flush that posts only the first command of the queue.
Flush_FirstOnly ==
    /\ isPendingFlush' = FALSE
    /\ IF queue = << >>
       THEN UNCHANGED <<queue, c2r, ctlFlush>>
       ELSE /\ c2r' = Append(c2r, [type |-> "cmds", cmds |-> <<Head(queue)>>,
                                   flushId |-> nextFlushId])
            /\ nextFlushId' = nextFlushId + 1
            /\ queue' = << >>
            /\ pendingFlushResolves' = pendingFlushResolves \cup {nextFlushId}
            /\ flushSettled' = MapSet(flushSettled, nextFlushId, 0)

\* A variant of Via.Flush that clears the queue before it posts the message.
Flush_ClearFirst ==
    /\ isPendingFlush' = FALSE
    /\ IF queue = << >>
       THEN UNCHANGED <<queue, c2r, ctlFlush>>
       ELSE /\ c2r' = Append(c2r, [type |-> "cmds", cmds |-> << >>, flushId |-> nextFlushId])
            /\ nextFlushId' = nextFlushId + 1
            /\ queue' = << >>
            /\ pendingFlushResolves' = pendingFlushResolves \cup {nextFlushId}
            /\ flushSettled' = MapSet(flushSettled, nextFlushId, 0)

\* Via.Flush: nothing to post for an empty queue; otherwise one "cmds" message
\* with the queue under a new flush id, and a pending promise under that id.
Flush ==
    /\ isPendingFlush' = FALSE
    /\ IF queue = << >>
       THEN UNCHANGED <<queue, c2r, ctlFlush>>
       ELSE /\ c2r' = Append(c2r, [type |-> "cmds", cmds |-> queue, flushId |-> nextFlushId])
            /\ nextFlushId' = nextFlushId + 1
            /\ queue' = << >>
            /\ pendingFlushResolves' = pendingFlushResolves \cup {nextFlushId}
            /\ flushSettled' = MapSet(flushSettled, nextFlushId, 0)

\* The application calls Via.Flush().
AppFlush ==
    /\ Flush
    /\ burstFlushed' = (burstFlushed \/ microtasks > 0)
    /\ UNCHANGED <<ctlIds, microtasks, appended, ctlGets, ctlFinal, ctlHandles, ctlApp,
                   burstStart, c2rRead, r2c, r2cRead, recvVars>>

\* Promise.resolve().then(Via.Flush): the scheduled flush runs.
FlushMicrotask ==
    /\ microtasks > 0
    /\ Flush
    /\ microtasks' = microtasks - 1
    /\ burstStart' = Len(appended)
    /\ burstFlushed' = FALSE
    /\ UNCHANGED <<ctlIds, appended, ctlGets, ctlFinal, ctlHandles, ctlApp,
                   c2rRead, r2c, r2cRead, recvVars>>

\* Via._UnwrapArg(arr): a primitive, or a new Object Handle of the id.
ViaUnwrapArg(oh, arr) ==
    CASE arr.tag = 0 -> [ok |-> TRUE, v |-> CPrim(arr.value), handles |-> oh]
      [] arr.tag = 1 -> [ok |-> TRUE, v |-> CObj(arr.id), handles |-> MakeObject(oh, arr.id)]
      [] OTHER -> [ok |-> FALSE, v |-> CPlain, handles |-> oh]

\* A variant of OnDone that drops an acknowledgment with an unknown flush id.
OnDone_Ignore(data) ==
    /\ IF data.flushId \in pendingFlushResolves
       THEN /\ pendingFlushResolves' = pendingFlushResolves \ {data.flushId}
            /\ flushSettled' = [flushSettled EXCEPT ![data.flushId] = @ + 1]
       ELSE UNCHANGED <<pendingFlushResolves, flushSettled>>
    /\ UNCHANGED <<nextFlushId, called, thrown, ctlGets, objHandles>>

\* A variant of the loop of OnDone that leaves the entries in the map.
RECURSIVE OnDoneGets_NoDelete(_, _, _)
OnDoneGets_NoDelete(st, getResults, i) ==
    IF i > Len(getResults) \/ ~st.ok THEN st
    ELSE LET getId == getResults[i].getId
             u == ViaUnwrapArg(st.handles, getResults[i].value)
         IN  IF getId \notin st.pending \/ ~u.ok
             THEN [st EXCEPT !.ok = FALSE, !.err = "invalid get id"]
             ELSE OnDoneGets_NoDelete([st EXCEPT !.settled[getId] = Append(st.settled[getId], u.v),
                                                 !.handles = u.handles],
                                      getResults, i + 1)

\* The loop of OnDone over data.getResults: an unknown get id throws; else the
\* entry is deleted and the promise resolved with the unwrapped value.
RECURSIVE OnDoneGets(_, _, _)
OnDoneGets(st, getResults, i) ==
    IF i > Len(getResults) \/ ~st.ok THEN st
    ELSE LET getId == getResults[i].getId
             u == ViaUnwrapArg(st.handles, getResults[i].value)
         IN  IF getId \notin st.pending THEN [st EXCEPT !.ok = FALSE, !.err = "invalid get id"]
             ELSE IF ~u.ok THEN [st EXCEPT !.ok = FALSE, !.err = "invalid arg type",
                                           !.pending = st.pending \ {getId}]
             ELSE OnDoneGets([st EXCEPT !.pending = st.pending \ {getId},
                                        !.settled[getId] = Append(st.settled[getId], u.v),
                                        !.handles = u.handles],
                             getResults, i + 1)

\* OnDone(data): resolve the gets, then the promise of the flush; an unknown
\* get id and an unknown flush id throw.
OnDone(data) ==
    LET st == OnDoneGets([pending |-> pendingGetResolves, settled |-> getSettled,
                          handles |-> objHandles, ok |-> TRUE, err |-> ""],
                         data.getResults, 1)
    IN  /\ pendingGetResolves' = st.pending
        /\ getSettled' = st.settled
        /\ objHandles' = st.handles
        /\ IF st.ok /\ data.flushId \in pendingFlushResolves
           THEN /\ pendingFlushResolves' = pendingFlushResolves \ {data.flushId}
                /\ flushSettled' = [flushSettled EXCEPT ![data.flushId] = @ + 1]
                /\ thrown' = thrown
           ELSE /\ UNCHANGED <<pendingFlushResolves, flushSettled>>
                /\ thrown' = Append(thrown, IF st.ok THEN "invalid flush id" ELSE st.err)
        /\ UNCHANGED <<nextFlushId, called>>

\* data.args.map(Via._UnwrapArg)
RECURSIVE UnwrapArgsCtl(_, _, _, _)
UnwrapArgsCtl(oh, args, i, acc) ==
    IF i > Len(args) THEN [ok |-> TRUE, v |-> acc, handles |-> oh]
    ELSE LET u == ViaUnwrapArg(oh, args[i])
         IN  IF u.ok THEN UnwrapArgsCtl(u.handles, args, i + 1, Append(acc, u.v))
             ELSE [ok |-> FALSE, v |-> acc, handles |-> u.handles]

\* A variant of OnCallback that runs the function twice.
OnCallback_Twice(data) ==
    LET u == UnwrapArgsCtl(objHandles, data.args, 1, << >>)
        run == [func |-> idToCallback[data.id], args |-> u.v]
    IN  IF data.id \notin DOMAIN idToCallback
        THEN /\ thrown' = Append(thrown, "invalid callback id")
             /\ UNCHANGED <<objHandles, called, ctlGets, ctlFlush>>
        ELSE /\ objHandles' = u.handles
             /\ called' = IF u.ok THEN called \o <<run, run>> ELSE called
             /\ thrown' = IF u.ok THEN thrown ELSE Append(thrown, "invalid arg type")
             /\ UNCHANGED <<ctlGets, ctlFlush>>

\* OnCallback(data): run the function registered under the id.
OnCallback(data) ==
    LET u == UnwrapArgsCtl(objHandles, data.args, 1, << >>)
    IN  IF data.id \notin DOMAIN idToCallback
        THEN /\ thrown' = Append(thrown, "invalid callback id")
             /\ UNCHANGED <<objHandles, called, ctlGets, ctlFlush>>
        ELSE /\ objHandles' = u.handles
             /\ called' = IF u.ok THEN Append(called, [func |-> idToCallback[data.id], args |-> u.v])
                          ELSE called
             /\ thrown' = IF u.ok THEN thrown ELSE Append(thrown, "invalid arg type")
             /\ UNCHANGED <<ctlGets, ctlFlush>>

\* Via.OnMessage(data): a task of the controller, run when no microtask is left.
ViaOnMessage ==
    /\ microtasks = 0
    /\ r2cRead < Len(r2c)
    /\ r2cRead' = r2cRead + 1
    /\ LET data == r2c[r2cRead + 1]
       IN  CASE data.type = "done" -> OnDone(data)
             [] data.type = "callback" -> OnCallback(data)
             [] OTHER -> /\ thrown' = Append(thrown, "invalid message type")
                         /\ UNCHANGED <<objHandles, called, ctlGets, ctlFlush>>
    /\ UNCHANGED <<ctlIds, ctlQueue, ctlFinal, props, burstVars, faults, wrapErrors, c2r, c2rRead,
                   r2c, recvVars>>

\* FinalizeID(id): an Object Handle with this id was collected.  The handle
\* "via" of the global object stays reachable.
FinalizeID(id) ==
    /\ id \in LiveIds
    /\ objHandles[id] > (IF id = 0 THEN 1 ELSE 0)
    /\ Ops < MaxOps
    /\ objHandles' = [objHandles EXCEPT ![id] = @ - 1]
    /\ finalizeIdQueue' = Append(finalizeIdQueue, id)
    /\ finalizeTimerId' = IF finalizeTimerId = -1 THEN 1 ELSE finalizeTimerId
    /\ UNCHANGED <<ctlIds, ctlQueue, ctlFlush, ctlGets, props, ctlApp, burstVars,
                   c2r, c2rRead, r2c, r2cRead, recvVars>>

\* A variant of CleanupIDs that posts one "cleanup" message for each id.
CleanupIDs_OnePerId ==
    /\ finalizeTimerId # -1
    /\ microtasks = 0
    /\ finalizeTimerId' = -1
    /\ c2r' = c2r \o [n \in 1..Len(finalizeIdQueue) |->
                         [type |-> "cleanup", ids |-> <<finalizeIdQueue[n]>>]]
    /\ finalizeIdQueue' = << >>
    /\ UNCHANGED <<ctlIds, ctlQueue, ctlFlush, ctlGets, ctlHandles, ctlApp, burstVars,
                   c2rRead, r2c, r2cRead, recvVars>>

\* CleanupIDs: the timer fires; one "cleanup" message with the finalized ids.
CleanupIDs ==
    /\ finalizeTimerId # -1
    /\ microtasks = 0
    /\ finalizeTimerId' = -1
    /\ c2r' = Append(c2r, [type |-> "cleanup", ids |-> finalizeIdQueue])
    /\ finalizeIdQueue' = << >>
    /\ UNCHANGED <<ctlIds, ctlQueue, ctlFlush, ctlGets, ctlHandles, ctlApp, burstVars,
                   c2rRead, r2c, r2cRead, recvVars>>

\* A variant of OnCommandsMessage that posts the "done" message after a throw too.
OnCommandsMessage_AlwaysDone(data) ==
    LET rs == RunCommands([idMap |-> idMap, heap |-> heap, nextObjectId |-> recvNextObjectId,
                           getResults |-> << >>, log |-> rlog, ok |-> TRUE, posted |-> << >>],
                          data.flushId, data.cmds, 1)
    IN  /\ idMap' = rs.idMap
        /\ heap' = rs.heap
        /\ recvNextObjectId' = rs.nextObjectId
        /\ rlog' = rs.log
        /\ rthrown' = IF rs.ok THEN rthrown ELSE Append(rthrown, data.flushId)
        /\ r2c' = Append(r2c \o rs.posted, [type |-> "done", flushId |-> data.flushId,
                                           getResults |-> rs.getResults])

\* A variant of OnCommandsMessage that posts the "done" message ahead of the
\* "callback" messages of the batch.
OnCommandsMessage_DoneFirst(data) ==
    LET rs == RunCommands([idMap |-> idMap, heap |-> heap, nextObjectId |-> recvNextObjectId,
                           getResults |-> << >>, log |-> rlog, ok |-> TRUE, posted |-> << >>],
                          data.flushId, data.cmds, 1)
    IN  /\ idMap' = rs.idMap
        /\ heap' = rs.heap
        /\ recvNextObjectId' = rs.nextObjectId
        /\ rlog' = rs.log
        /\ rthrown' = IF rs.ok THEN rthrown ELSE Append(rthrown, data.flushId)
        /\ r2c' = IF rs.ok
                  THEN Append(r2c, [type |-> "done", flushId |-> data.flushId,
                                    getResults |-> rs.getResults]) \o rs.posted
                  ELSE r2c \o rs.posted

\* A variant of OnCommandsMessage that acknowledges no batch once a batch
\* has thrown.
OnCommandsMessage_DeadAfterThrow(data) ==
    LET rs == RunCommands([idMap |-> idMap, heap |-> heap, nextObjectId |-> recvNextObjectId,
                           getResults |-> << >>, log |-> rlog, ok |-> TRUE, posted |-> << >>],
                          data.flushId, data.cmds, 1)
    IN  /\ idMap' = rs.idMap
        /\ heap' = rs.heap
        /\ recvNextObjectId' = rs.nextObjectId
        /\ rlog' = rs.log
        /\ rthrown' = IF rs.ok THEN rthrown ELSE Append(rthrown, data.flushId)
        /\ r2c' = IF rs.ok /\ rthrown = << >>
                  THEN Append(r2c \o rs.posted, [type |-> "done", flushId |-> data.flushId,
                                                  getResults |-> rs.getResults])
                  ELSE r2c \o rs.posted

\* A variant of OnCleanupMessage that acknowledges the message.
OnCleanupMessage_Done(data) ==
    /\ idMap' = [id \in (DOMAIN idMap) \ {data.ids[i] : i \in 1..Len(data.ids)} |-> idMap[id]]
    /\ r2c' = Append(r2c, [type |-> "done", flushId |-> 0, getResults |-> << >>])
    /\ UNCHANGED <<heap, recvNextObjectId, rlog, rthrown>>

\* ---------------------------------------------------- the receiver's handlers
\* OnCommandsMessage(data): run the commands, then post one "done" message
\* with the flush id and the get results; a throw posts nothing and leaves
\* ViaReceiver.OnMessage as an error.
OnCommandsMessage(data) ==
    LET rs == RunCommands([idMap |-> idMap, heap |-> heap, nextObjectId |-> recvNextObjectId,
                           getResults |-> << >>, log |-> rlog, ok |-> TRUE, posted |-> << >>],
                          data.flushId, data.cmds, 1)
    IN  /\ idMap' = rs.idMap
        /\ heap' = rs.heap
        /\ recvNextObjectId' = rs.nextObjectId
        /\ rlog' = rs.log
        /\ rthrown' = IF rs.ok THEN rthrown ELSE Append(rthrown, data.flushId)
        /\ r2c' = IF rs.ok
                  THEN Append(r2c \o rs.posted, [type |-> "done", flushId |-> data.flushId,
                                                  getResults |-> rs.getResults])
                  ELSE r2c \o rs.posted

\* A variant of the loop of OnCleanupMessage that looks every id up before
\* deleting it: an id that is not in the map throws and ends the loop.
RECURSIVE DeleteIds_LookUp(_, _, _)
DeleteIds_LookUp(im, ids, n) ==
    IF n > Len(ids) THEN [idMap |-> im, ok |-> TRUE]
    ELSE IF ids[n] \notin DOMAIN im THEN [idMap |-> im, ok |-> FALSE]
    ELSE DeleteIds_LookUp(MapDelete(im, ids[n]), ids, n + 1)

\* for (const id of data.ids) idMap.delete(id), from the n-th id on: the map
\* left, and whether the loop ran to its end without a throw (Map.delete of
\* a key that is not there returns false and throws nothing).
RECURSIVE DeleteIds(_, _, _)
DeleteIds(im, ids, n) ==
    IF n > Len(ids) THEN [idMap |-> im, ok |-> TRUE]
    ELSE DeleteIds(MapDelete(im, ids[n]), ids, n + 1)

\* OnCleanupMessage(data): delete the ids from the id map.
OnCleanupMessage(data) ==
    /\ idMap' = DeleteIds(idMap, data.ids, 1).idMap
    /\ UNCHANGED <<heap, recvNextObjectId, rlog, rthrown, r2c>>

\* A variant of the delivery to the receiver that hands over the newest message first.
ReceiverOnMessage_NewestFirst ==
    /\ c2rRead < Len(c2r)
    /\ c2rRead' = c2rRead + 1
    /\ LET data == c2r[Len(c2r) - c2rRead]
       IN  CASE data.type = "cmds" -> OnCommandsMessage(data)
             [] data.type = "cleanup" -> OnCleanupMessage(data)
             [] OTHER -> UNCHANGED <<recvVars, r2c>>
    /\ UNCHANGED <<ctlIds, ctlQueue, ctlFlush, ctlGets, ctlFinal, ctlHandles, ctlApp,
                   burstVars, c2r, r2cRead>>

\* ViaReceiver.OnMessage(data)
ReceiverOnMessage ==
    /\ c2rRead < Len(c2r)
    /\ c2rRead' = c2rRead + 1
    /\ LET data == c2r[c2rRead + 1]
       IN  CASE data.type = "cmds" -> OnCommandsMessage(data)
             [] data.type = "cleanup" -> OnCleanupMessage(data)
             [] OTHER -> UNCHANGED <<recvVars, r2c>>
    /\ UNCHANGED <<ctlIds, ctlQueue, ctlFlush, ctlGets, ctlFinal, ctlHandles, ctlApp,
                   burstVars, c2r, r2cRead>>

\* ------------------------------------------------------- a faulty channel
\* The acknowledgments a channel that is not reliable may deliver: a "done"
\* message of the receiver once more, one with a flush id that was never
\* given out, and one with a get id that was never given out.
FaultyAcks ==
    {r2c[i] : i \in {n \in 1..Len(r2c) : r2c[n].type = "done"}}
    \cup {[type |-> "done", flushId |-> nextFlushId, getResults |-> << >>]}
    \cup {[type |-> "done", flushId |-> 0,
           getResults |-> <<[getId |-> nextGetId, value |-> DPrim(Undef)]>>]}

\* The channel hands the controller an acknowledgment the receiver did not post.
FaultyAck(m) ==
    /\ Ops < MaxOps
    /\ faults' = faults + 1
    /\ UNCHANGED wrapErrors
    /\ r2c' = Append(r2c, m)
    /\ UNCHANGED <<ctlIds, ctlQueue, ctlFlush, ctlGets, ctlFinal, ctlHandles, called, thrown,
                   burstVars, c2r, c2rRead, r2cRead, recvVars>>

\* ------------------------------------------------------- the specification
Next ==
    \/ \E id \in LiveIds : \E k \in ReadKeys(id) : ObjectHandlerGet(id, k)
    \/ \E h \in 1..Len(props), k \in NestedKeys : PropertyHandlerGet(h, k)
    \/ \E id \in LiveIds, k \in WriteKeys, v \in ArgValues : ObjectHandlerSet(id, k, v)
    \/ \E h \in 1..Len(props), k \in WriteKeys, v \in ArgValues : PropertyHandlerSet(h, k, v)
    \/ \E h \in 1..Len(props), a \in ArgLists : PropertyHandlerApply(h, a)
    \/ \E h \in 1..Len(props), a \in ArgLists : PropertyHandlerConstruct(h, a)
    \/ \E id \in LiveIds : GetOfObject(id)
    \/ \E h \in 1..Len(props) : GetOfProperty(h)
    \/ AppFlush
    \/ FlushMicrotask
    \/ ViaOnMessage
    \/ \E id \in LiveIds : FinalizeID(id)
    \/ CleanupIDs
    \/ ReceiverOnMessage

Spec == Init /\ [][Next]_vars

\* The receiver has a message to take: the enabling condition of
\* ReceiverOnMessage.
ReceiverHasMessage == c2rRead < Len(c2r)

\* The same program with an event loop that runs every queued microtask and
\* a channel that delivers every message in both directions. The second
\* conjunct is WF_vars(ReceiverOnMessage) written out with its enabling
\* condition.
SpecLive ==
    /\ Spec
    /\ WF_vars(FlushMicrotask)
    /\ []<>(~ReceiverHasMessage) \/ []<><<ReceiverOnMessage>>_vars
    /\ WF_vars(ViaOnMessage)

\* The application lets go of the handle "via" (delete self.via), and the
\* FinalizationRegistry, where Via._MakeObject(0) registered it with id 0,
\* calls FinalizeID(0).
ReleaseVia ==
    /\ objHandles[0] = 1
    /\ Ops < MaxOps
    /\ objHandles' = [objHandles EXCEPT ![0] = 0]
    /\ finalizeIdQueue' = Append(finalizeIdQueue, 0)
    /\ finalizeTimerId' = IF finalizeTimerId = -1 THEN 1 ELSE finalizeTimerId
    /\ UNCHANGED <<ctlIds, ctlQueue, ctlFlush, ctlGets, props, ctlApp, burstVars,
                   c2r, c2rRead, r2c, r2cRead, recvVars>>

\* The same program with an application that may let go of "via" too.
NextRelease ==
    \/ Next
    \/ ReleaseVia

SpecRelease == Init /\ [][NextRelease]_vars

\* The channel hands the receiver a "cleanup" message it has handed over before.
RedeliverCleanup(i) ==
    /\ i \in 1..c2rRead
    /\ c2r[i].type = "cleanup"
    /\ Ops < MaxOps
    /\ faults' = faults + 1
    /\ UNCHANGED wrapErrors
    /\ OnCleanupMessage(c2r[i])
    /\ UNCHANGED <<ctlIds, ctlQueue, ctlFlush, ctlGets, ctlFinal, ctlHandles, called, thrown,
                   burstVars, c2r, c2rRead, r2cRead>>

\* The same program over a channel that may deliver a cleanup message twice.
NextRedeliver ==
    \/ Next
    \/ \E i \in 1..Len(c2r) : RedeliverCleanup(i)

SpecRedeliver == Init /\ [][NextRedeliver]_vars

\* ------------------------------------------------------------- callbacks
\* The functions of the application that it hands over as callbacks, and the
\* arguments the receiver's code calls a shim with (a number, the global object).
Funcs == {"f", "g"}
ShimArgs == {<<Prim(1)>>, <<Root>>}

\* The receiver as the handler of the next message finds it.
ReceiverState ==
    [idMap |-> idMap, heap |-> heap, nextObjectId |-> recvNextObjectId,
     getResults |-> << >>, log |-> rlog, ok |-> TRUE, posted |-> << >>]

\* The callback ids of the shims that the receiver's objects hold in a property.
HeldShims ==
    UNION {{heap[o][k].id : k \in {j \in DOMAIN heap[o] : heap[o][j].t = "shim"}} :
           o \in DOMAIN heap}

\* The receiver's code calls the shim made by GetCallbackShim(id): one
\* "callback" message with the id and the wrapped arguments is posted.
InvokeShim(id, args) ==
    LET w == WrapArgsRecv(ReceiverState, args, 1, << >>)
    IN  /\ id \in HeldShims
        /\ Ops < MaxOps
        /\ r2c' = Append(r2c, [type |-> "callback", id |-> id, args |-> w.d])
        /\ idMap' = w.rs.idMap
        /\ recvNextObjectId' = w.rs.nextObjectId
        /\ UNCHANGED <<ctlIds, ctlQueue, ctlFlush, ctlGets, ctlFinal, ctlHandles, ctlApp,
                       burstVars, c2r, c2rRead, r2cRead, heap, rlog, rthrown>>

\* The same program with an application that writes functions to properties
\* of the receiver's objects (via.x = f), and a receiver whose code calls them.
NextCallbacks ==
    \/ Next
    \/ \E id \in LiveIds, k \in WriteKeys, f \in Funcs : ObjectHandlerSet(id, k, CFunc(f))
    \/ \E id \in HeldShims, args \in ShimArgs : InvokeShim(id, args)

SpecCallbacks == Init /\ [][NextCallbacks]_vars

\* -------------------------------------------------- values of every kind
\* The values of every kind that the application may write: undefined and a
\* number, the Object Handles and Property Handles it holds, its functions,
\* and an ordinary object.
WrapInputs ==
    {CPrim(Undef), CPrim(Prim(1)), CPlain}
    \cup {CObj(id) : id \in LiveIds}
    \cup {CProp(h) : h \in 1..Len(props)}
    \cup {CFunc(f) : f \in Funcs}

\* The same program with an application that writes values of every kind.
NextWrap ==
    \/ Next
    \/ \E id \in LiveIds, k \in WriteKeys, v \in WrapInputs : ObjectHandlerSet(id, k, v)

SpecWrap == Init /\ [][NextWrap]_vars

\* --------------------------------------------- results that have an id
\* The same program with an application that also reads the member valueOf
\* of the global object, so that a call can return an object that is in the
\* receiver's id map already.
NextRebind ==
    \/ Next
    \/ ObjectHandlerGet(0, "valueOf")

SpecRebind == Init /\ [][NextRebind]_vars

\* ------------------------------------------- values that cannot be posted
\* Argument lists with a value that Via._WrapArg rejects, alone and after a
\* function.
BadArgLists == {<<CPlain>>, <<CFunc("f"), CPlain>>}

\* The same program with an application that also writes and passes values
\* that cannot be posted.
NextInvalidArgs ==
    \/ Next
    \/ \E id \in LiveIds, k \in WriteKeys : ObjectHandlerSet(id, k, CPlain)
    \/ \E h \in 1..Len(props), k \in WriteKeys : PropertyHandlerSet(h, k, CPlain)
    \/ \E h \in 1..Len(props), a \in BadArgLists : PropertyHandlerApply(h, a)
    \/ \E h \in 1..Len(props), a \in BadArgLists : PropertyHandlerConstruct(h, a)

SpecInvalidArgs == Init /\ [][NextInvalidArgs]_vars

\* ------------------------------------------------------ malformed messages
\* Messages that a defect of the peer or of the bridge may put on the way to
\* the receiver: one of a type it does not know, and batches of one command
\* with a command tag it does not know, with a value descriptor whose tag it
\* does not know, and with an object id that was never given out.
MalformedToReceiver ==
    {[type |-> "bogus"],
     [type |-> "cmds", flushId |-> -1,
      cmds |-> <<[SetCmd(0, <<"x">>, DPrim(Undef)) EXCEPT !.type = 9]>>],
     [type |-> "cmds", flushId |-> -1,
      cmds |-> <<SetCmd(0, <<"x">>, [tag |-> 9, value |-> Undef])>>],
     [type |-> "cmds", flushId |-> -1,
      cmds |-> <<SetCmd(nextObjectId, <<"x">>, DPrim(Undef))>>]}

\* And on the way to the controller: a message of a type it does not know,
\* and a "callback" message with a callback id that was never given out.
MalformedToController ==
    {[type |-> "bogus"],
     [type |-> "callback", id |-> nextCallbackId, args |-> << >>]}

InjectToReceiver(m) ==
    /\ Ops < MaxOps
    /\ faults' = faults + 1
    /\ UNCHANGED wrapErrors
    /\ c2r' = Append(c2r, m)
    /\ UNCHANGED <<ctlIds, ctlQueue, ctlFlush, ctlGets, ctlFinal, ctlHandles, called, thrown,
                   burstVars, c2rRead, r2c, r2cRead, recvVars>>

InjectToController(m) ==
    /\ Ops < MaxOps
    /\ faults' = faults + 1
    /\ UNCHANGED wrapErrors
    /\ r2c' = Append(r2c, m)
    /\ UNCHANGED <<ctlIds, ctlQueue, ctlFlush, ctlGets, ctlFinal, ctlHandles, called, thrown,
                   burstVars, c2r, c2rRead, r2cRead, recvVars>>

\* The same program with malformed messages arriving on both sides.
NextMalformed ==
    \/ Next
    \/ \E m \in MalformedToReceiver : InjectToReceiver(m)
    \/ \E m \in MalformedToController : InjectToController(m)

SpecMalformed == Init /\ [][NextMalformed]_vars

\* The same program over a channel that may add acknowledgments.
NextFaulty ==
    \/ Next
    \/ \E m \in FaultyAcks : FaultyAck(m)

SpecFaulty == Init /\ [][NextFaulty]_vars

\* Acknowledgments that name a get id that is pending and are rejected all
\* the same: the flush id was never given out, or a later get id was not.
MixedAcks ==
    {[type |-> "done", flushId |-> nextFlushId,
      getResults |-> <<[getId |-> g, value |-> DPrim(Prim(1))]>>] : g \in pendingGetResolves}
    \cup {[type |-> "done", flushId |-> nextFlushId,
           getResults |-> <<[getId |-> g, value |-> DPrim(Prim(1))],
                            [getId |-> nextGetId, value |-> DPrim(Prim(1))]>>] :
           g \in pendingGetResolves}

\* The same program over a channel that may also deliver such acknowledgments.
NextMixedAcks ==
    \/ NextFaulty
    \/ \E m \in MixedAcks : FaultyAck(m)

SpecMixedAcks == Init /\ [][NextMixedAcks]_vars

\* ------------------------------------------------------------ the properties
IsPrefix(s, t) == Len(s) <= Len(t) /\ s = SubSeq(t, 1, Len(s))

\* The commands the receiver has gone through, in its order.
LogCmds == [i \in 1..Len(rlog) |-> rlog[i].cmd]

\* The "cmds" messages posted so far, and the one posted under a flush id.
CmdsMsgs == {i \in 1..Len(c2r) : c2r[i].type = "cmds"}
BatchOf(f) == c2r[CHOOSE i \in CmdsMsgs : c2r[i].flushId = f]

\* The number of commands posted in the batches up to and including flush f.
RECURSIVE CmdsUpTo(_, _)
CmdsUpTo(f, i) ==
    IF i > Len(c2r) THEN 0
    ELSE (IF c2r[i].type = "cmds" /\ c2r[i].flushId <= f THEN Len(c2r[i].cmds) ELSE 0)
         + CmdsUpTo(f, i + 1)

\* The log entries of one batch.
EntriesOf(f) == {i \in 1..Len(rlog) : rlog[i].fid = f}

\* C1 (as amended): the receiver goes through the appended commands in
\* exactly the order they were appended, each one once; a command is left
\* unexecuted only when it fails or follows a failing command of its own batch.
C1_AppendOrder ==
    /\ IsPrefix(LogCmds, appended)
    /\ \A i \in 1..Len(rlog) :
          /\ rlog[i].st = "skipped" =>
                \E j \in 1..(i - 1) : rlog[j].fid = rlog[i].fid /\ rlog[j].st = "failed"
          /\ rlog[i].st = "ok" =>
                \A j \in 1..(i - 1) : rlog[j].fid = rlog[i].fid => rlog[j].st = "ok"

\* C1 as stated: the receiver executes every appended command, in order, none skipped.
C1_NoneSkipped ==
    /\ IsPrefix(LogCmds, appended)
    /\ \A i \in 1..Len(rlog) : rlog[i].st = "ok"

\* Commands of two batches were executed, and a later batch ran after a
\* batch that was aborted.
C1_Witness ==
    \E i, j \in 1..Len(rlog) :
        /\ i < j
        /\ rlog[i].fid # rlog[j].fid
        /\ rlog[i].st = "failed"
        /\ rlog[j].st = "ok"

\* The ids a delivered "cleanup" message has deleted.
CleanedIds ==
    UNION {{c2r[i].ids[n] : n \in 1..Len(c2r[i].ids)} :
           i \in {m \in 1..c2rRead : c2r[m].type = "cleanup"}}

IsCallEntry(e) == e.cmd.type \in {0, 3} /\ e.st = "ok"

TotalPosted == CmdsUpTo(nextFlushId, 1)

\* A step that appends a command, and the step of the scheduled flush.
AppendStep == Len(appended') > Len(appended)
ScheduledFlushStep == microtasks' = microtasks - 1

\* C3: the commands appended in one burst in which Via.Flush was not called
\* are posted by the scheduled flush in one "cmds" message that holds all of
\* them and nothing else: appending posts nothing, none of them was posted
\* before, and the flush posts exactly that one message.
C3_OneBatchPerBurst ==
    [][/\ AppendStep => c2r' = c2r
       /\ (ScheduledFlushStep /\ ~burstFlushed /\ Len(appended) > burstStart) =>
             /\ TotalPosted = burstStart
             /\ c2r' = Append(c2r, [type |-> "cmds",
                                    cmds |-> SubSeq(appended, burstStart + 1, Len(appended)),
                                    flushId |-> nextFlushId])]_vars

\* A call that allocates an id and a set on the handle of that id wait in the
\* queue for the scheduled flush, and nothing was posted.
C3_Witness ==
    /\ Len(queue) = 2
    /\ queue[1].type = 0
    /\ queue[2].type = 1
    /\ queue[2].objectId = queue[1].returnObjectId
    /\ ~burstFlushed
    /\ burstStart = 0
    /\ microtasks = 1
    /\ c2r = << >>

\* The "done" messages posted so far, and those delivered to the controller.
DoneMsgs == {i \in 1..Len(r2c) : r2c[i].type = "done"}
DeliveredDone == {i \in DoneMsgs : i <= r2cRead}

\* The flush ids of the batches the receiver has been given.
ProcessedFlushes == {c2r[i].flushId : i \in {m \in CmdsMsgs : m <= c2rRead}}

\* The get ids of the Get commands of a command list, in order.
GetIdsOf(cmds) ==
    LET gets == SelectSeq(cmds, LAMBDA c : c.type = 2)
    IN  [i \in 1..Len(gets) |-> gets[i].getId]

\* The get ids of a getResults list, in order.
ResultIds(getResults) == [i \in 1..Len(getResults) |-> getResults[i].getId]

\* The value Via._UnwrapArg gives for a descriptor of the receiver.
Unwrapped(d) == IF d.tag = 0 THEN CPrim(d.value) ELSE CObj(d.id)

\* The entries of the delivered "done" messages, as pairs of message and position.
DeliveredEntries ==
    UNION {{<<i, n>> : n \in 1..Len(r2c[i].getResults)} : i \in DeliveredDone}

\* The batch ran without a failure.
BatchOk(f) == \A i \in EntriesOf(f) : rlog[i].st = "ok"

GetEntriesOf(f) ==
    SelectSeq(rlog, LAMBDA e : e.fid = f /\ e.cmd.type = 2)

\* The descriptor of a get result stands for the value the Get read.
Describes(d, value) ==
    IF value.t \in {"undef", "prim"} THEN d = DPrim(value)
    ELSE d.tag = 1 /\ d.id < 0

\* C5: the receiver posts one "done" message for every batch that ran without
\* a failure and nothing else: the message follows the whole batch, carries
\* the flush id of the batch and the results of the Gets of that batch, and a
\* "cleanup" message is not answered.
C5_OneDonePerBatch ==
    /\ Len(r2c) = Cardinality({f \in ProcessedFlushes : BatchOk(f)})
    /\ \A i \in 1..Len(r2c) :
          /\ r2c[i].type = "done"
          /\ r2c[i].flushId \in ProcessedFlushes
          /\ BatchOk(r2c[i].flushId)
          /\ [n \in 1..Len(GetEntriesOf(r2c[i].flushId)) |->
                 GetEntriesOf(r2c[i].flushId)[n].cmd] =
             SelectSeq(BatchOf(r2c[i].flushId).cmds, LAMBDA c : c.type = 2)
          /\ Len(r2c[i].getResults) = Len(GetEntriesOf(r2c[i].flushId))
          /\ \A n \in 1..Len(r2c[i].getResults) :
                /\ r2c[i].getResults[n].getId = GetEntriesOf(r2c[i].flushId)[n].cmd.getId
                /\ Describes(r2c[i].getResults[n].value, GetEntriesOf(r2c[i].flushId)[n].ret)
    /\ \A f \in ProcessedFlushes :
          BatchOk(f) => Cardinality(EntriesOf(f)) = Len(BatchOf(f).cmds)

\* The receiver was given a batch of two commands, one of them a Get, and a
\* "cleanup" message, and it posted one message.
C5_Witness ==
    /\ \E m \in 1..c2rRead : c2r[m].type = "cleanup"
    /\ \E f \in ProcessedFlushes :
          /\ BatchOk(f)
          /\ Len(BatchOf(f).cmds) = 2
          /\ Len(GetEntriesOf(f)) = 1
    /\ Len(r2c) = 1

\* The flush ids whose promise was resolved.
SettledFlushes == {f \in DOMAIN flushSettled : flushSettled[f] >= 1}

ReadStep ==
    \/ \E id \in LiveIds : \E k \in ReadKeys(id) : ObjectHandlerGet(id, k)
    \/ \E h \in 1..Len(props), k \in NestedKeys : PropertyHandlerGet(h, k)
FlushStep == AppFlush \/ FlushMicrotask

\* C7: a member-read on an Object Handle or a Property Handle posts no
\* message, appends no command and schedules no flush, so a chain of reads of
\* any length leaves the queue, the messages and the scheduled flushes alone.
C7_ReadsAreLocal ==
    [][ReadStep => UNCHANGED <<c2r, r2c, queue, appended, isPendingFlush, microtasks>>]_vars

\* A chain of two member-reads was made, and nothing was queued or posted.
C7_Witness ==
    /\ Len(props) = 2
    /\ props[1].nextCache = [x |-> 2]
    /\ Len(props[2].path) = 2
    /\ appended = << >>
    /\ c2r = << >>
    /\ microtasks = 0

\* C8: Via.Flush with an empty queue posts no message, takes no flush id and
\* adds no entry to the map of pending flushes.
C8_EmptyFlush ==
    [][(FlushStep /\ queue = << >>) =>
          UNCHANGED <<c2r, queue, nextFlushId, pendingFlushResolves, flushSettled>>]_vars

\* The scheduled flush is about to run with an empty queue: the batch was
\* posted by a call of Via.Flush by the application.
C8_Witness ==
    /\ queue = << >>
    /\ microtasks > 0
    /\ burstFlushed
    /\ Len(c2r) = 1
    /\ nextFlushId = 1

\* The flush ids of the "cmds" messages posted so far.
UsedFlushIds == {c2r[i].flushId : i \in CmdsMsgs}

\* C9: Via.Flush with a non-empty queue posts one "cmds" message with the
\* commands of the queue under a flush id no earlier flush used, empties the
\* queue and leaves a promise pending under that id; the receiver goes through
\* the commands of the message as posted; and a pending flush id leaves the
\* map only when a "done" message with that id is delivered.
C9_NonEmptyFlush ==
    [][/\ (FlushStep /\ queue # << >>) =>
             /\ c2r' = Append(c2r, [type |-> "cmds", cmds |-> queue, flushId |-> nextFlushId])
             /\ nextFlushId \notin UsedFlushIds
             /\ queue' = << >>
             /\ pendingFlushResolves' = pendingFlushResolves \cup {nextFlushId}
             /\ flushSettled'[nextFlushId] = 0
       /\ (c2rRead' # c2rRead /\ c2r[c2rRead'].type = "cmds") =>
             [n \in 1..(Len(rlog') - Len(rlog)) |-> rlog'[Len(rlog) + n].cmd]
                = c2r[c2rRead'].cmds
       /\ \A f \in pendingFlushResolves \ pendingFlushResolves' :
             /\ r2cRead' = r2cRead + 1
             /\ r2c[r2cRead'].type = "done"
             /\ r2c[r2cRead'].flushId = f]_vars

\* Two flushes posted a batch each; the first was acknowledged and the
\* promise of the second is pending.
C9_Witness ==
    /\ Len(c2r) = 2
    /\ c2r[1].type = "cmds" /\ c2r[2].type = "cmds"
    /\ c2r[1].flushId # c2r[2].flushId
    /\ queue = << >>
    /\ pendingFlushResolves = {c2r[2].flushId}
    /\ flushSettled[c2r[1].flushId] = 1

\* C10: the promise of a Get and the promise of a flush are resolved at most
\* once, and only by a delivered "done" message with their own id; the entry
\* of an id is in the map of pending promises exactly until then.
C10_SettledOnce ==
    /\ \A g \in 0..(nextGetId - 1) :
          /\ Len(getSettled[g]) <= 1
          /\ (g \in pendingGetResolves) <=> (Len(getSettled[g]) = 0)
          /\ Len(getSettled[g]) = 1 =>
                Cardinality({e \in DeliveredEntries :
                                r2c[e[1]].getResults[e[2]].getId = g}) = 1
    /\ \A f \in 0..(nextFlushId - 1) :
          /\ flushSettled[f] <= 1
          /\ (f \in pendingFlushResolves) <=> (flushSettled[f] = 0)
          /\ flushSettled[f] = 1 =>
                Cardinality({i \in DeliveredDone : r2c[i].flushId = f}) = 1
    /\ pendingGetResolves \subseteq 0..(nextGetId - 1)
    /\ pendingFlushResolves \subseteq 0..(nextFlushId - 1)

\* The promise of a Get and the promise of its flush were resolved, and the
\* promise of a later Get is pending.
C10_Witness ==
    /\ nextGetId = 2
    /\ Len(getSettled[0]) = 1
    /\ flushSettled[0] = 1
    /\ pendingGetResolves = {1}

\* The acknowledgment names a flush id or a get id that is not pending, or
\* names a get id twice.
BadAck(m) ==
    \/ m.flushId \notin pendingFlushResolves
    \/ \E n \in 1..Len(m.getResults) : m.getResults[n].getId \notin pendingGetResolves
    \/ \E n, k \in 1..Len(m.getResults) : n < k /\ m.getResults[n].getId = m.getResults[k].getId

\* The controller is handed the next message of the receiver's channel.
DeliverStep == r2cRead' = r2cRead + 1

\* C11: an acknowledgment whose flush id or one of whose get ids is not
\* pending (never given out, or settled already) makes Via.OnMessage throw
\* "invalid get id" or "invalid flush id"; it is not dropped silently.
C11_BadAckThrows ==
    [][(DeliverStep /\ r2c[r2cRead'].type = "done" /\ BadAck(r2c[r2cRead'])) =>
          /\ Len(thrown') = Len(thrown) + 1
          /\ thrown'[Len(thrown')] \in {"invalid get id", "invalid flush id"}]_vars

\* A "done" message was delivered twice and the second delivery threw
\* "invalid flush id".
C11_Witness ==
    /\ faults = 1
    /\ r2cRead = 2
    /\ r2c[1] = r2c[2]
    /\ thrown = <<"invalid flush id">>

\* A command of the batch failed.
Aborted(f) == \E i \in EntriesOf(f) : rlog[i].st = "failed"

\* C12 (as amended): the promises of the flushes are resolved in the order of
\* the flush ids, except that the promise of an aborted batch stays pending:
\* when the promise of a flush is resolved, every flush with a smaller id is
\* resolved too or its batch was aborted.
C12_SettleInOrder ==
    \A g \in SettledFlushes :
        \A f \in 0..(g - 1) : f \in pendingFlushResolves => Aborted(f)

\* C12 as stated: a flush with a larger id is never resolved while a flush
\* with a smaller id is pending.
C12_NeverOvertaken ==
    \A g \in SettledFlushes : \A f \in 0..(g - 1) : f \notin pendingFlushResolves

\* Two batches were posted and acknowledged: the promise of the first flush
\* is resolved while the acknowledgment of the second is on its way.
C12_Witness ==
    /\ Len(r2c) = 2
    /\ r2cRead = 1
    /\ 0 \in SettledFlushes
    /\ pendingFlushResolves = {1}

\* C13: at most one flush set by Via._AddToQueue is waiting in the microtask
\* queue at any moment.
C13_AtMostOneScheduled == microtasks <= 1

\* The receiver ran the n-th appended command, or went past it in a batch
\* that a failing command aborted.
RanOrAborted(n) ==
    /\ Len(rlog) >= n
    /\ rlog[n].st = "ok" \/ Aborted(rlog[n].fid)

\* The promise of Get g is resolved, or the batch of its command was aborted.
SettledOrAborted(g) ==
    \/ g \in DOMAIN getSettled /\ Len(getSettled[g]) >= 1
    \/ \E i \in 1..Len(rlog) :
          rlog[i].cmd.type = 2 /\ rlog[i].cmd.getId = g /\ Aborted(rlog[i].fid)

\* C14: while the queue holds a command a flush is scheduled; and when the
\* event loop runs the scheduled flushes and the channel delivers every
\* message, every appended command is posted and run by the receiver and the
\* promise of every Get is resolved, with no call of Via.Flush needed, unless
\* a command of its batch fails.
C14_AutoFlush ==
    /\ [](queue # << >> => microtasks > 0)
    /\ \A n \in 1..(MaxOps + 1) : (Len(appended) >= n) ~> RanOrAborted(n)
    /\ \A g \in 0..MaxOps : (g \in pendingGetResolves) ~> SettledOrAborted(g)

\* A Get was appended, run by the receiver and its promise resolved.
C14_Witness ==
    /\ Len(appended) >= 1
    /\ appended[1].type = 2
    /\ Len(rlog) >= 1
    /\ rlog[1].st = "ok"
    /\ Len(getSettled[0]) = 1

\* The ids given out by Via._GetNextObjectId, in order: the return ids of the
\* call and construct commands appended.
CtlAllocated ==
    LET RECURSIVE Ids(_)
        Ids(n) == IF n = 0 THEN << >>
                  ELSE IF appended[n].type \in {0, 3}
                       THEN Append(Ids(n - 1), appended[n].returnObjectId)
                       ELSE Ids(n - 1)
    IN  Ids(Len(appended))

\* The ids given out by ObjectToId and posted, in order: the object ids in
\* the get results of the "done" messages.
RecvAllocated ==
    LET RECURSIVE OfMsg(_, _)
        OfMsg(gr, n) == IF n = 0 THEN << >>
                        ELSE IF gr[n].value.tag = 1
                             THEN Append(OfMsg(gr, n - 1), gr[n].value.id)
                             ELSE OfMsg(gr, n - 1)
        RECURSIVE Ids(_)
        Ids(i) == IF i = 0 THEN << >>
                  ELSE IF r2c[i].type = "done"
                       THEN Ids(i - 1) \o OfMsg(r2c[i].getResults, Len(r2c[i].getResults))
                       ELSE Ids(i - 1)
    IN  Ids(Len(r2c))

\* The ids bound in the receiver's map by this step and not before.
NewIds == (DOMAIN idMap') \ (DOMAIN idMap)

\* C15: the ids the controller allocates are positive and go up, the ids the
\* receiver allocates are negative and go down, so that no id is allocated
\* twice, none is allocated by both sides and none is the root id 0; each
\* counter only moves away from 0, and every negative id a step binds lies
\* between the receiver's counter before and after the step.
C15_IdAllocation ==
    /\ [](/\ \A n \in 1..Len(CtlAllocated) :
                /\ 1 <= CtlAllocated[n]
                /\ CtlAllocated[n] < nextObjectId
                /\ \A k \in 1..(n - 1) : CtlAllocated[k] < CtlAllocated[n]
          /\ \A n \in 1..Len(RecvAllocated) :
                /\ RecvAllocated[n] <= -1
                /\ RecvAllocated[n] > recvNextObjectId
                /\ \A k \in 1..(n - 1) : RecvAllocated[k] > RecvAllocated[n])
    /\ [][/\ nextObjectId' >= nextObjectId
          /\ recvNextObjectId' <= recvNextObjectId
          /\ {id \in NewIds : id < 0} = {id \in (recvNextObjectId' + 1)..recvNextObjectId : TRUE}
          /\ \A id \in NewIds : id > 0 => id \in 1..(nextObjectId - 1)]_vars

\* The receiver gave out -1 and then -2, and both were posted.
C15_Witness ==
    /\ Len(RecvAllocated) = 2
    /\ RecvAllocated = <<-1, -2>>
    /\ recvNextObjectId = -3

\* C16: in every state of the receiver, id 0 is bound to the receiver's
\* global object: no command batch and no cleanup message removes or rebinds it.
C16_RootBound == 0 \in DOMAIN idMap /\ idMap[0] = Root

\* The receiver before the i-th command of the batch data is run.
BeforeCommand(data, i) == RunCommands(ReceiverState, data.flushId, SubSeq(data.cmds, 1, i - 1), 1)

\* Running the call or construct command cmd in the state rs binds the
\* returned value under cmd.returnObjectId and nothing else: the counter of
\* the receiver and every other entry of the map are as before; a command
\* that throws binds nothing.
BindsOnlyReturnId(rs, fid, cmd) ==
    LET after == RunCommand(rs, fid, cmd)
    IN  /\ after.nextObjectId = rs.nextObjectId
        /\ IF after.ok
           THEN /\ DOMAIN after.idMap = (DOMAIN rs.idMap) \cup {cmd.returnObjectId}
                /\ after.idMap[cmd.returnObjectId] = after.log[Len(after.log)].ret
                /\ \A id \in (DOMAIN rs.idMap) \ {cmd.returnObjectId} :
                      after.idMap[id] = rs.idMap[id]
           ELSE after.idMap = rs.idMap

\* C17: a Call or Construct binds its result under exactly the return id of
\* the command: for every command batch about to be delivered and every call
\* or construct command of it that is reached, running the command leaves the
\* receiver's id counter alone and adds, changes or removes no map entry
\* other than the return id.
C17_BindsUnderReturnId ==
    (c2rRead < Len(c2r) /\ c2r[c2rRead + 1].type = "cmds") =>
        LET data == c2r[c2rRead + 1]
        IN  \A i \in 1..Len(data.cmds) :
               (data.cmds[i].type \in {0, 3} /\ BeforeCommand(data, i).ok) =>
                   BindsOnlyReturnId(BeforeCommand(data, i), data.flushId, data.cmds[i])

\* A construct command was run after a Get had moved the receiver's counter:
\* the new object is bound under the return id 1, the counter is where the
\* Get left it.
C17_Witness ==
    /\ Len(rlog) = 2
    /\ rlog[1].cmd.type = 2 /\ rlog[1].st = "ok"
    /\ rlog[2].cmd.type = 3 /\ rlog[2].st = "ok"
    /\ rlog[2].cmd.returnObjectId = 1
    /\ DOMAIN idMap = {0, -1, 1}
    /\ idMap[1] = rlog[2].ret
    /\ recvNextObjectId = -2

\* The message this step hands to the receiver, when it hands one over.
ReceiverStep == c2rRead' = c2rRead + 1

\* The log entries of the commands this step ran.
NewEntries == (Len(rlog) + 1)..Len(rlog')

\* The ids this step removed from the receiver's map.
RemovedIds == (DOMAIN idMap) \ (DOMAIN idMap')

IdRange == (-MaxOps)..MaxOps
IdLists == {<< >>} \cup {<<a>> : a \in IdRange} \cup {<<a, b>> : a, b \in IdRange}

\* C19: in every state of the receiver and for every list of ids, deleting
\* the list twice leaves the map that deleting it once leaves, and neither
\* run throws; deleting an id that is not in the map changes nothing; and a
\* cleanup message delivered a second time leaves the receiver as it was.
C19_CleanupIdempotent ==
    /\ [](\A ids \in IdLists :
             LET once == DeleteIds(idMap, ids, 1)
                 twice == DeleteIds(once.idMap, ids, 1)
             IN  once.ok /\ twice.ok /\ twice.idMap = once.idMap)
    /\ [](\A id \in IdRange \ DOMAIN idMap :
             DeleteIds(idMap, <<id>>, 1) = [idMap |-> idMap, ok |-> TRUE])
    /\ [][faults' = faults + 1 => recvVars' = recvVars /\ r2c' = r2c]_vars

\* The cleanup message listing -1 was delivered, and then delivered again.
C19_Witness ==
    /\ faults = 1
    /\ c2rRead = 2
    /\ c2r[2] = [type |-> "cleanup", ids |-> <<-1>>]
    /\ recvNextObjectId = -2
    /\ -1 \notin DOMAIN idMap

\* The ids listed in the "cleanup" messages posted so far, in order.
CleanupIdsPosted ==
    LET RECURSIVE Ids(_)
        Ids(i) == IF i = 0 THEN << >>
                  ELSE IF c2r[i].type = "cleanup" THEN Ids(i - 1) \o c2r[i].ids
                  ELSE Ids(i - 1)
    IN  Ids(Len(c2r))

\* The ids of the Object Handles that were collected.
FinalizedIds == {id \in DOMAIN objHandles : objHandles[id] = 0}

\* FinalizeID was called in this step; the timer fired in this step.
SignalStep == Len(finalizeIdQueue') = Len(finalizeIdQueue) + 1
TimerFires == finalizeTimerId # -1 /\ finalizeTimerId' = -1

\* C20: the ids signalled while the cleanup timer is armed are posted in
\* exactly one "cleanup" message that lists exactly them, in the order of the
\* signals, and that the receiver gets as posted.  A signal queues its id,
\* posts nothing, arms the timer when it is not armed and leaves an armed
\* timer alone; the timer firing posts one message with the queued ids,
\* empties the queue and disarms the timer; nothing else posts a "cleanup"
\* message; the timer is armed exactly while ids are queued; and every
\* collected id is listed once, in a message or in the queue.
C20_OneCleanupPerWindow ==
    /\ [](finalizeTimerId = -1 <=> finalizeIdQueue = << >>)
    /\ [](LET all == CleanupIdsPosted \o finalizeIdQueue
          IN  /\ {all[n] : n \in 1..Len(all)} = FinalizedIds
              /\ \A n, k \in 1..Len(all) : all[n] = all[k] => n = k)
    /\ [][/\ IsPrefix(c2r, c2r')
          /\ SignalStep =>
                /\ SubSeq(finalizeIdQueue', 1, Len(finalizeIdQueue)) = finalizeIdQueue
                /\ c2r' = c2r
                /\ finalizeTimerId' # -1
                /\ finalizeTimerId # -1 => finalizeTimerId' = finalizeTimerId
          /\ TimerFires =>
                /\ c2r' = Append(c2r, [type |-> "cleanup", ids |-> finalizeIdQueue])
                /\ finalizeIdQueue' = << >>
          /\ (Len(c2r') > Len(c2r) /\ c2r'[Len(c2r')].type = "cleanup") => TimerFires
          /\ (ReceiverStep /\ c2r[c2rRead'].type = "cleanup") =>
                DOMAIN idMap' = (DOMAIN idMap) \ {c2r[c2rRead'].ids[n] :
                                                    n \in 1..Len(c2r[c2rRead'].ids)}]_vars

\* Two signals arrived while the timer was armed: one cleanup message with
\* the two ids was posted and delivered, the queue is empty and the timer is
\* not armed.
C20_Witness ==
    /\ Cardinality(FinalizedIds) = 2
    /\ Len(CleanupIdsPosted) = 2
    /\ c2r[Len(c2r)].type = "cleanup"
    /\ Len(c2r[Len(c2r)].ids) = 2
    /\ c2rRead = Len(c2r)
    /\ finalizeIdQueue = << >>
    /\ finalizeTimerId = -1

\* The callback ids in the Set commands appended, in order.
CallbackIdsSent ==
    LET RECURSIVE Ids(_)
        Ids(n) == IF n = 0 THEN << >>
                  ELSE IF appended[n].type = 1 /\ appended[n].value.tag = 2
                       THEN Append(Ids(n - 1), appended[n].value.id)
                       ELSE Ids(n - 1)
    IN  Ids(Len(appended))

\* C21: the two callback maps are inverse of each other and hold the ids
\* 0 .. nextCallbackId - 1; a function not yet wrapped gets the next id,
\* which no function has, and is recorded in both maps; a function wrapped
\* before gets the id it has and the maps stay as they are, so wrapping a
\* function twice gives one id; two functions get two ids; every callback id
\* sent is registered; and the maps only grow.
C21_CallbackIds ==
    /\ [](/\ DOMAIN idToCallback = 0..(nextCallbackId - 1)
          /\ \A f \in DOMAIN callbackToId :
                callbackToId[f] \in DOMAIN idToCallback /\ idToCallback[callbackToId[f]] = f
          /\ \A id \in DOMAIN idToCallback :
                idToCallback[id] \in DOMAIN callbackToId /\ callbackToId[idToCallback[id]] = id
          /\ \A n \in 1..Len(CallbackIdsSent) : CallbackIdsSent[n] \in DOMAIN idToCallback)
    /\ [](\A f \in Funcs :
             LET first == GetCallbackId(Callbacks, f)
                 again == GetCallbackId(first.cb, f)
             IN  /\ again.id = first.id
                 /\ again.cb = first.cb
                 /\ first.cb.callbackToId[f] = first.id
                 /\ first.cb.idToCallback[first.id] = f
                 /\ IF f \in DOMAIN callbackToId
                    THEN first.id = callbackToId[f] /\ first.cb = Callbacks
                    ELSE first.id = nextCallbackId /\ first.id \notin DOMAIN idToCallback
                 /\ \A g \in Funcs \ {f} :
                       GetCallbackId(first.cb, g).id # first.id)
    /\ [][/\ \A f \in DOMAIN callbackToId :
                f \in DOMAIN callbackToId' /\ callbackToId'[f] = callbackToId[f]
          /\ nextCallbackId' >= nextCallbackId]_vars

\* The application wrote f, then g, then f again: f was given the id 0 both
\* times and g the id 1.
C21_Witness ==
    /\ CallbackIdsSent = <<0, 1, 0>>
    /\ Cardinality(DOMAIN callbackToId) = 2
    /\ nextCallbackId = 2

\* The "callback" messages posted and those handed to the controller, by
\* their place in r2c.
CallbackMsgs == {i \in 1..Len(r2c) : r2c[i].type = "callback"}
DeliveredCallbacks == {i \in CallbackMsgs : i <= r2cRead}

\* The n-th "callback" message handed to the controller.
RECURSIVE NthCallback(_, _)
NthCallback(n, from) ==
    IF r2c[from].type = "callback"
    THEN IF n = 1 THEN r2c[from] ELSE NthCallback(n - 1, from + 1)
    ELSE NthCallback(n, from + 1)

\* The receiver's own code called a shim in this step; a "callback" message
\* was handed to the controller in this step.
ShimStep == ~ReceiverStep /\ Len(r2c') = Len(r2c) + 1 /\ r2c'[Len(r2c')].type = "callback"
CallbackStep == DeliverStep /\ r2c[r2cRead'].type = "callback"

\* The callback ids of the "callback" messages this step posted, and the
\* callback ids of the shims that the calls run in this step called, in order.
PostedCallbackIds ==
    LET new == SelectSeq(SubSeq(r2c', Len(r2c) + 1, Len(r2c')), LAMBDA m : m.type = "callback")
    IN  [n \in 1..Len(new) |-> new[n].id]
CalledShimIds ==
    LET new == SelectSeq(SubSeq(rlog', Len(rlog) + 1, Len(rlog')),
                         LAMBDA e : "shim" \in DOMAIN e)
    IN  [n \in 1..Len(new) |-> new[n].shim]

\* C22: each call of a shim posts exactly one "callback" message, with the
\* callback id of the shim, which the controller registered: a call by the
\* receiver's own code posts one message with the id of a shim the receiver
\* holds, and a command batch posts one message for each of its calls that
\* called a shim, in the order of the calls.  Each such message handed to
\* the controller runs the function registered under its id exactly once, and
\* the controller posts and queues nothing in answer to it: the functions run
\* are, in order, those of the messages delivered, one run for each message.
C22_OneMessagePerCall ==
    /\ [](/\ Len(called) = Cardinality(DeliveredCallbacks)
          /\ \A n \in 1..Len(called) :
                called[n].func = idToCallback[NthCallback(n, 1).id]
          /\ \A i \in CallbackMsgs : r2c[i].id \in DOMAIN idToCallback)
    /\ [][/\ ShimStep =>
                /\ r2c'[Len(r2c')].id \in HeldShims
                /\ UNCHANGED <<c2r, called, r2cRead>>
          /\ ReceiverStep =>
                /\ PostedCallbackIds = CalledShimIds
                /\ UNCHANGED <<c2r, called, r2cRead>>
          /\ (~ReceiverStep /\ ~ShimStep) => PostedCallbackIds = << >>
          /\ CallbackStep =>
                /\ called' = Append(called,
                                    [func |-> idToCallback[r2c[r2cRead'].id],
                                     args |-> called'[Len(called')].args])
                /\ UNCHANGED <<c2r, r2c, ctlQueue, ctlFlush, ctlGets>>]_vars

\* The receiver called the shim of the callback 0 twice: two "callback"
\* messages with the id 0 were posted, and the function was run twice.
C22_Witness ==
    /\ Cardinality(CallbackMsgs) = 2
    /\ r2cRead = Len(r2c)
    /\ \A i \in CallbackMsgs : r2c[i].id = 0
    /\ Len(called) = 2
    /\ called[1].func = "f" /\ called[2].func = "f"

\* The batches that were aborted, by their flush ids.
AbortedFlushes == {f \in ProcessedFlushes : Aborted(f)}

\* The place of the command of the batch data that throws, when one does.
FailIndex(data) ==
    CHOOSE k \in 1..Len(data.cmds) :
        BeforeCommand(data, k).ok /\ ~BeforeCommand(data, k + 1).ok

\* C23: when a command of a batch throws, the commands of the batch after it
\* are not run, no "done" message is posted for the flush id, and the promise
\* of the flush and those of the Gets of the batch are never resolved; the
\* receiver is left as the commands before the failing one left it.
C23_AbortedBatch ==
    /\ [](\A f \in AbortedFlushes :
             /\ \A i, j \in EntriesOf(f) :
                   /\ (rlog[i].st = "failed" /\ j > i) => rlog[j].st = "skipped"
                   /\ (rlog[i].st = "failed" /\ j < i) => rlog[j].st = "ok"
             /\ \A i \in DoneMsgs : r2c[i].flushId # f
             /\ f \in pendingFlushResolves
             /\ flushSettled[f] = 0
             /\ \A n \in 1..Len(GetIdsOf(BatchOf(f).cmds)) :
                   /\ GetIdsOf(BatchOf(f).cmds)[n] \in pendingGetResolves
                   /\ getSettled[GetIdsOf(BatchOf(f).cmds)[n]] = << >>)
    /\ [][(/\ ReceiverStep
           /\ c2r[c2rRead'].type = "cmds"
           /\ ~BeforeCommand(c2r[c2rRead'], Len(c2r[c2rRead'].cmds) + 1).ok) =>
              LET data == c2r[c2rRead']
                  kept == BeforeCommand(data, FailIndex(data))
              IN  /\ idMap' = kept.idMap
                  /\ heap' = kept.heap
                  /\ recvNextObjectId' = kept.nextObjectId
                  /\ r2c' = r2c
                  /\ Len(rlog') = Len(rlog) + Len(data.cmds)]_vars

\* A batch of a Set and a call of a property that is no function was run: the
\* Set was done and its value is kept, the call failed, no "done" message
\* was posted and the promise of the flush is pending.
C23_Witness ==
    /\ Len(rlog) = 2
    /\ rlog[1].fid = rlog[2].fid
    /\ rlog[1].st = "ok" /\ rlog[1].cmd.type = 1
    /\ rlog[2].st = "failed" /\ rlog[2].cmd.type = 0
    /\ heap[Root]["x"] = Prim(1)
    /\ r2c = << >>
    /\ pendingFlushResolves = {0}

\* What makes a message handed to the receiver a protocol failure: its type
\* is not known, or its first command has a tag that is not known, a value
\* descriptor with a tag that is not known, or an object id that is not in
\* the id map.
UnknownTypeR(m) == m.type \notin {"cmds", "cleanup"}
BadFirstCommand(m) ==
    /\ m.type = "cmds"
    /\ Len(m.cmds) >= 1
    /\ \/ m.cmds[1].type \notin 0..3
       \/ m.cmds[1].type = 1 /\ m.cmds[1].value.tag \notin 0..3
       \/ m.cmds[1].objectId \notin DOMAIN idMap

\* And a message handed to the controller: its type is not known, or it is a
\* "callback" message with an id that is not registered.
BadForController(m) ==
    \/ m.type \notin {"done", "callback"}
    \/ m.type = "callback" /\ m.id \notin DOMAIN idToCallback

\* The receiver's handler ended with an error in this step; so did the controller's.
ReceiverThrows == Len(rthrown') = Len(rthrown) + 1
ControllerThrows ==
    /\ Len(thrown') = Len(thrown) + 1
    /\ thrown'[Len(thrown')] \in {"invalid message type", "invalid callback id"}

\* C24: every protocol failure ends the handler of the side that detects it
\* with an error: on the receiver a message of an unknown type, a command
\* with an unknown tag, a value descriptor with an unknown tag and an object
\* id that is not in the id map; on the controller a message of an unknown
\* type and a "callback" message with an unknown callback id.
C24_FailFast ==
    [][/\ (ReceiverStep /\ UnknownTypeR(c2r[c2rRead'])) => ReceiverThrows
       /\ (ReceiverStep /\ BadFirstCommand(c2r[c2rRead'])) => ReceiverThrows
       /\ (DeliverStep /\ BadForController(r2c[r2cRead'])) => ControllerThrows]_vars

\* A member-read made a Property Handle in this step: the new one.
NewHandleStep == Len(props') = Len(props) + 1
NewHandle == props'[Len(props')]

\* The Property Handles read from the Object Handle with this id by this key.
ReadFromObject(id, k) ==
    {i \in 1..Len(props) : props[i].objectId = id /\ props[i].path = <<k>>}

\* C25: a member-read of the key k on a handle gives a Property Handle with
\* the id of that handle and its path extended by k, and gives the handle it
\* gave before when the same key is read on the same handle again: a read
\* makes a new Property Handle only for a key that was not read on that
\* handle before.
C25_ReadsCached ==
    [][NewHandleStep =>
          IF Len(NewHandle.path) = 1
          THEN /\ NewHandle.objectId \in LiveIds
               /\ ReadFromObject(NewHandle.objectId, NewHandle.path[1]) = {}
          ELSE \E h \in 1..Len(props) :
                  LET k == NewHandle.path[Len(NewHandle.path)]
                  IN  /\ k \notin DOMAIN props[h].nextCache
                      /\ props'[h].nextCache = MapSet(props[h].nextCache, k, Len(props'))
                      /\ NewHandle.objectId = props[h].objectId
                      /\ NewHandle.path = Append(props[h].path, k)]_vars

\* The command appended in this step.
NewCmd == appended'[Len(appended')]

\* The descriptors of the argument lists and of the values the application passes.
WrappedArgLists == {WrapArgs(Callbacks, a, 1, << >>).d : a \in ArgLists}
WrappedValues == {ViaWrapArg(Callbacks, v).d : v \in ArgValues}

\* C26: a call or a construction through a Property Handle takes exactly one
\* new id, appends exactly one call or construct command with the id and the
\* path of the handle, the wrapped arguments and the new id as return id, and
\* makes one Object Handle of that id; a member-write appends exactly one set
\* command with the id of the handle, its path extended by the key written
\* and the wrapped value, and takes no id; nothing else takes an id.
C26_OneCommandPerOperation ==
    [][/\ Len(appended') <= Len(appended) + 1
       /\ (AppendStep /\ NewCmd.type \in {0, 3}) =>
             /\ queue' = Append(queue, NewCmd)
             /\ nextObjectId' = nextObjectId + 1
             /\ NewCmd.returnObjectId = nextObjectId
             /\ \E h \in 1..Len(props) :
                   NewCmd.objectId = props[h].objectId /\ NewCmd.path = props[h].path
             /\ NewCmd.args \in WrappedArgLists
             /\ nextObjectId \notin DOMAIN objHandles
             /\ objHandles' = MapSet(objHandles, nextObjectId, 1)
       /\ (AppendStep /\ NewCmd.type = 1) =>
             /\ queue' = Append(queue, NewCmd)
             /\ nextObjectId' = nextObjectId
             /\ objHandles' = objHandles
             /\ NewCmd.value \in WrappedValues
             /\ \/ \E h \in 1..Len(props), k \in WriteKeys :
                      /\ NewCmd.objectId = props[h].objectId
                      /\ NewCmd.path = Append(props[h].path, k)
                \/ \E id \in LiveIds, k \in WriteKeys :
                      NewCmd.objectId = id /\ NewCmd.path = <<k>>
       /\ nextObjectId' # nextObjectId => (AppendStep /\ NewCmd.type \in {0, 3})]_vars

\* A call through the Property Handle via.mk took the id 1, and a write
\* through the same Property Handle appended a set command with the path
\* extended by the key.
C26_Witness ==
    /\ Len(appended) = 2
    /\ appended[1] = CallCmd(0, <<"mk">>, <<DPrim(Prim(1)), DObj(0)>>, 1)
    /\ appended[2] = SetCmd(0, <<"mk", "x">>, DPrim(Prim(1)))
    /\ nextObjectId = 2
    /\ objHandles[1] = 1

\* The value descriptors in the Set commands appended, in order.
ValuesSent ==
    LET sets == SelectSeq(appended, LAMBDA c : c.type = 1)
    IN  [n \in 1..Len(sets) |-> sets[n].value]

\* C27: Via._WrapArg puts every value in exactly one class: an Object Handle
\* gives [1, its id]; a Property Handle gives [3, its id, its path]; a value
\* that can be structured-cloned gives [0, the value]; a function gives
\* [2, the callback id registered for it]; every other value throws; only a
\* function changes the callback maps; and every descriptor sent is one of these.
C27_WrapClassifies ==
    /\ \A v \in WrapInputs :
          LET w == ViaWrapArg(Callbacks, v)
          IN  CASE v.k = "objh" -> w.ok /\ w.d = DObj(v.id) /\ w.cb = Callbacks
                [] v.k = "proph" ->
                      /\ w.ok
                      /\ w.d = DProp(props[v.h].objectId, props[v.h].path)
                      /\ w.cb = Callbacks
                [] v.k = "prim" -> w.ok /\ w.d = DPrim(v.v) /\ w.cb = Callbacks
                [] v.k = "func" ->
                      /\ w.ok
                      /\ w.d.tag = 2
                      /\ w.d = DCallback(w.cb.callbackToId[v.f])
                      /\ w.cb.idToCallback[w.d.id] = v.f
                [] OTHER -> ~w.ok /\ w.cb = Callbacks
    /\ \A n \in 1..Len(ValuesSent) :
          CASE ValuesSent[n].tag = 0 -> ValuesSent[n].value \in {Undef, Prim(1)}
            [] ValuesSent[n].tag = 1 -> ValuesSent[n].id \in DOMAIN objHandles
            [] ValuesSent[n].tag = 2 -> ValuesSent[n].id \in DOMAIN idToCallback
            [] ValuesSent[n].tag = 3 ->
                  \E h \in 1..Len(props) :
                     ValuesSent[n] = DProp(props[h].objectId, props[h].path)
            [] OTHER -> FALSE

\* The application wrote a Property Handle and a function: the descriptors
\* [3, 0, ["x"]] and [2, 0] were sent.
C27_Witness ==
    /\ Len(ValuesSent) = 2
    /\ ValuesSent[1] = DProp(0, <<"x">>)
    /\ ValuesSent[2] = DCallback(0)

\* The primitive descriptors, and the ids an Object descriptor may carry.
PrimDescriptors == {DPrim(Undef), DPrim(Prim(1))}

\* C28: the codec round trip.  For every primitive descriptor, wrapping what
\* unwrapping gives is the descriptor again, on the controller and on the
\* receiver; for every Object Handle whose id is in the receiver's id map the
\* receiver unwraps the controller's descriptor of it to the object bound
\* under the id, and for every Property Handle of such an id to that object
\* navigated along the path of the handle; and the controller wraps the Object
\* Handle that it makes of [1, i] as [1, i] again.
C28_RoundTrip ==
    /\ \A d \in PrimDescriptors :
          /\ ViaWrapArg(Callbacks, ViaUnwrapArg(objHandles, d).v).d = d
          /\ WrapArg(ReceiverState, UnwrapArg(ReceiverState, d).v).d = d
    /\ \A id \in LiveIds \cap DOMAIN idMap :
          UnwrapArg(ReceiverState, ViaWrapArg(Callbacks, CObj(id)).d)
             = [ok |-> TRUE, v |-> idMap[id]]
    /\ \A h \in 1..Len(props) :
          props[h].objectId \in DOMAIN idMap =>
             UnwrapArg(ReceiverState, ViaWrapArg(Callbacks, CProp(h)).d)
                = Navigate(heap, idMap[props[h].objectId], props[h].path, 1, Len(props[h].path))
    /\ \A i \in IdRange :
          LET u == ViaUnwrapArg(objHandles, DObj(i))
          IN  u.ok /\ u.v = CObj(i) /\ ViaWrapArg(Callbacks, u.v).d = DObj(i)

\* The ids under which the object is in the map of the receiver state rs.
IdsOf(rs, object) == {id \in DOMAIN rs.idMap : rs.idMap[id] = object}

\* The command batch about to be delivered to the receiver, if there is one.
HasNextBatch == c2rRead < Len(c2r) /\ c2r[c2rRead + 1].type = "cmds"
NextBatch == c2r[c2rRead + 1]

\* The i-th command of the batch is reached and runs without a throw.
RunsOk(data, i) ==
    /\ BeforeCommand(data, i).ok
    /\ RunCommand(BeforeCommand(data, i), data.flushId, data.cmds[i]).ok

\* The value the command run last in rs returned or read, and the descriptor
\* pushed last onto getResults.
LastRet(rs) == rs.log[Len(rs.log)].ret
LastResult(rs) == rs.getResults[Len(rs.getResults)].value

GetResultOf(g) ==
    UNION {{r2c[i].getResults[n].value :
               n \in {m \in 1..Len(r2c[i].getResults) : r2c[i].getResults[m].getId = g}} :
           i \in DoneMsgs}

\* The Set commands and the Get commands with a path among the commands
\* appended, by position.
AppendedSets == {a \in 1..Len(appended) : appended[a].type = 1}
AppendedGets == {b \in 1..Len(appended) : appended[b].type = 2 /\ ~appended[b].nullPath}
SameTarget(c1, c2) == c1.objectId = c2.objectId /\ c1.path = c2.path

RanSets == {i \in 1..Len(rlog) : rlog[i].cmd.type = 1 /\ rlog[i].st = "ok"}
RanGets == {j \in 1..Len(rlog) : rlog[j].cmd.type = 2 /\ rlog[j].st = "ok" /\ ~rlog[j].cmd.nullPath}
Location(e) == <<e.base, LastKey(e.cmd.path)>>

\* What the receiver makes of the descriptor of a Set that ran: the value of
\* a primitive descriptor, a shim of a callback descriptor, a real object or
\* a function of an object descriptor.
Stores(d, value) ==
    CASE d.tag = 0 -> value = d.value
      [] d.tag = 1 -> value.t \in {"obj", "fn", "shim"}
      [] d.tag = 2 -> value = Shim(d.id)
      [] OTHER -> TRUE

MissingId(e) == e.st = "failed" /\ e.obj = NoVal /\ e.cmd.type \in 0..3

\* The ids of the Property Handles the application made.
DerivedFrom == {props[h].objectId : h \in 1..Len(props)}

\* C31: the receiver runs no command against an id that a cleanup message
\* has deleted before while the application holds a handle derived from the
\* id: no command of a batch made through a Property Handle fails with a
\* missing object id because the Object Handle the Property Handle was read
\* from was collected and its id cleaned up.
C31_NoCommandOnCleanedId ==
    [][\A i \in NewEntries :
          ~(/\ MissingId(rlog'[i])
            /\ rlog'[i].cmd.objectId \in CleanedIds
            /\ rlog'[i].cmd.objectId \in DerivedFrom)]_vars

\* How often the id occurs in a sequence of ids.
Occurrences(ids, id) == Cardinality({n \in 1..Len(ids) : ids[n] = id})

\* The Object Handles made with the id over the run: those the application
\* holds and those that were collected (signalled and waiting for the timer,
\* or listed in a "cleanup" message).
HandlesMade(id) ==
    (IF id \in DOMAIN objHandles THEN objHandles[id] ELSE 0)
    + Occurrences(finalizeIdQueue, id) + Occurrences(CleanupIdsPosted, id)

\* The Object descriptors with the id in the messages posted to the controller.
ObjectDescriptors(id) ==
    LET In(ds) == Cardinality({n \in 1..Len(ds) : ds[n] = DObj(id)})
        Of(m) == IF m.type = "done"
                 THEN In([n \in 1..Len(m.getResults) |-> m.getResults[n].value])
                 ELSE IF m.type = "callback" THEN In(m.args) ELSE 0
        RECURSIVE Sum(_)
        Sum(i) == IF i = 0 THEN 0 ELSE Sum(i - 1) + Of(r2c[i])
    IN  Sum(Len(r2c))

\* C32: the controller makes at most one Object Handle for each id over a
\* run: one for id 0, one for each positive id given out (none for an id not
\* given out yet), and one for each negative id, which the receiver posts in
\* at most one Object descriptor and never for an id that is not its own; so
\* when an id is signalled as unreachable no Object Handle with that id is
\* left, and no step makes a handle for an id that had one before.
C32_OneHandlePerId ==
    /\ [](/\ \A id \in IdRange : HandlesMade(id) <= 1 /\ ObjectDescriptors(id) <= 1
          /\ HandlesMade(0) = 1 /\ ObjectDescriptors(0) = 0
          /\ \A id \in IdRange : id > 0 =>
                /\ ObjectDescriptors(id) = 0
                /\ id >= nextObjectId => HandlesMade(id) = 0
          /\ \A id \in IdRange : id < 0 => HandlesMade(id) <= ObjectDescriptors(id))
    /\ [][/\ \A id \in DOMAIN objHandles' :
                (id \notin DOMAIN objHandles \/ objHandles'[id] > objHandles[id])
                   => id \notin DOMAIN objHandles
          /\ SignalStep => objHandles'[finalizeIdQueue'[Len(finalizeIdQueue')]] = 0]_vars

\* The receiver wrapped its global object twice, as -1 and as -2: the
\* controller made one handle for each, and the handle -1 was collected.
C32_Witness ==
    /\ DOMAIN objHandles = {0, -1, -2}
    /\ objHandles[-1] = 0 /\ objHandles[-2] = 1 /\ objHandles[0] = 1
    /\ idMap[-1] = Root /\ idMap[-2] = Root

\* C33: a call or a construct that returned undefined leaves its return id
\* resolvable: a later command on that id that the receiver reaches (the id
\* not cleaned up) does not fail with a missing object id, and a Get without
\* a path on it runs and reads undefined.
C33_UndefinedResultResolvable ==
    \A i \in 1..Len(rlog), j \in 1..Len(rlog) :
        (/\ i < j
         /\ IsCallEntry(rlog[i]) /\ rlog[i].ret = Undef
         /\ rlog[j].cmd.type \in 0..3
         /\ rlog[j].cmd.objectId = rlog[i].cmd.returnObjectId
         /\ rlog[j].cmd.objectId \notin CleanedIds
         /\ rlog[j].st # "skipped")
        => /\ ~MissingId(rlog[j])
           /\ (rlog[j].cmd.type = 2 /\ rlog[j].cmd.nullPath) =>
                 rlog[j].st = "ok" /\ rlog[j].ret = Undef

\* Via._WrapArg threw "invalid argument" in this step.
WrapFails == Len(wrapErrors') = Len(wrapErrors) + 1

\* C34: a member-write, a call or a construction whose value or argument
\* Via._WrapArg rejects adds no command to the queue, schedules no flush and
\* posts nothing: the queue, the flag of the pending flush and the scheduled
\* flushes are as before.
C34_FailedWrapAppendsNothing ==
    [][WrapFails => UNCHANGED <<queue, appended, isPendingFlush, microtasks, c2r>>]_vars

\* A member-write and then a call with a function and a value that cannot
\* be posted were rejected, and nothing was queued or scheduled.
C34_Witness ==
    /\ wrapErrors = <<"set", "call">>
    /\ nextCallbackId = 1
    /\ queue = << >> /\ appended = << >>
    /\ ~isPendingFlush /\ microtasks = 0

\* The call and construct commands with the return id that are in the queue
\* or in a "cmds" message posted, as pairs of place and position.
BindersInQueue(id) ==
    {n \in 1..Len(queue) : queue[n].type \in {0, 3} /\ queue[n].returnObjectId = id}
BindersPosted(id) ==
    UNION {{<<m, n>> : n \in {k \in 1..Len(c2r[m].cmds) :
                                 /\ c2r[m].cmds[k].type \in {0, 3}
                                 /\ c2r[m].cmds[k].returnObjectId = id}} :
           m \in CmdsMsgs}
Binders(id) == Cardinality(BindersInQueue(id)) + Cardinality(BindersPosted(id))

\* The ids taken from the controller's counter so far.
IdsTaken == 1..(nextObjectId - 1)

\* C35: every id taken from the controller's counter is the return id of
\* exactly one call or construct command that is in the queue or was posted.
C35_EveryIdHasCommand == \A id \in IdsTaken : Binders(id) = 1

\* C35 as the program has it: every id taken is the return id of at most one
\* command, and no id not taken is the return id of any; an id is taken and
\* left without a command exactly when Via._WrapArg threw in the call or the
\* construction that took it, one id for each such throw, and no Object
\* Handle is made for such an id; every other id taken has its command and
\* had its Object Handle made.
C35_IdsAndCommands ==
    /\ \A id \in IdsTaken : Binders(id) <= 1
    /\ \A id \in IdRange \ IdsTaken : Binders(id) = 0
    /\ Cardinality({id \in IdsTaken : Binders(id) = 0})
          = Cardinality({n \in 1..Len(wrapErrors) : wrapErrors[n] \in {"call", "construct"}})
    /\ \A id \in IdsTaken : Binders(id) = 0 <=> id \notin DOMAIN objHandles

\* A call was rejected after the id 1 was taken, and the next call got the
\* id 2: the id 1 has no command and no handle, the id 2 has both.
C35_Witness ==
    /\ nextObjectId = 3
    /\ wrapErrors = <<"call">>
    /\ Binders(1) = 0 /\ Binders(2) = 1
    /\ DOMAIN objHandles = {0, 2}

\* The delivery of an acknowledgment that OnDone rejects with "invalid get
\* id" or "invalid flush id".
RejectedAck ==
    /\ DeliverStep
    /\ r2c[r2cRead'].type = "done"
    /\ Len(thrown') = Len(thrown) + 1
    /\ thrown'[Len(thrown')] \in {"invalid get id", "invalid flush id"}

\* C36: an acknowledgment that the controller rejects with "invalid get id"
\* or "invalid flush id" changes nothing in the controller: no promise of a
\* Get or of a flush is resolved and no entry leaves pendingGetResolves or
\* pendingFlushResolves.
C36_RejectedAckChangesNothing ==
    [][RejectedAck =>
          UNCHANGED <<pendingGetResolves, getSettled, pendingFlushResolves, flushSettled>>]_vars

\* The flush ids of the "done" messages handed to the controller, and the
\* flush ids of the batches posted whose "done" message was not handed over.
AckedFlushes == {r2c[i].flushId : i \in DeliveredDone}
UnackedFlushes == UsedFlushIds \ AckedFlushes

\* The get ids of the Get commands of a command list.
GetIdSet(cmds) == {cmds[n].getId : n \in {k \in 1..Len(cmds) : cmds[k].type = 2}}

\* C37: pendingFlushResolves holds exactly the flush ids of the batches
\* posted and not acknowledged yet, and pendingGetResolves exactly the get ids
\* of the Get commands in the queue or in a batch posted and not acknowledged
\* yet.
C37_PendingMaps ==
    /\ pendingFlushResolves = UnackedFlushes
    /\ pendingGetResolves =
          GetIdSet(queue) \cup UNION {GetIdSet(BatchOf(f).cmds) : f \in UnackedFlushes}

\* A batch with a Get was acknowledged, a second batch with a Get is posted
\* and not acknowledged, and a third Get is in the queue.
C37_Witness ==
    /\ AckedFlushes = {0}
    /\ UnackedFlushes = {1}
    /\ GetIdSet(BatchOf(0).cmds) = {0}
    /\ GetIdSet(BatchOf(1).cmds) = {1}
    /\ GetIdSet(queue) = {2}
    /\ pendingFlushResolves = {1}
    /\ pendingGetResolves = {1, 2}

\* The calls of batch f that called a shim, by their place in the log, and
\* the place in r2c of the "done" message of batch f.
ShimCallsOf(f) == {i \in EntriesOf(f) : "shim" \in DOMAIN rlog[i]}
DoneOf(f) == CHOOSE d \in DoneMsgs : r2c[d].flushId = f

\* The "callback" messages among the first m messages of r2c.
CallbacksUpTo(m) == {i \in CallbackMsgs : i <= m}

\* The promise of flush f or that of a Get of its batch is resolved.
BatchSettled(f) ==
    \/ flushSettled[f] >= 1
    \/ \E g \in GetIdSet(BatchOf(f).cmds) : getSettled[g] # << >>

\* The Gets whose promise is resolved.
SettledGets == {g \in DOMAIN getSettled : getSettled[g] # << >>}

\* The messages this step posted to the controller.
NewToController == SubSeq(r2c', Len(r2c) + 1, Len(r2c'))

\* C38: the "callback" message of a shim called by a command of a batch is
\* posted ahead of the "done" message of the batch, and the controller is
\* handed it and runs the registered function before the "done" message
\* resolves the promise of the flush or of a Get of the batch; the controller
\* handles the "callback" and "done" messages one at a time in the order the
\* receiver posted them, a function is run and a promise resolved only by
\* the message next in that order.
C38_CallbackBeforeDone ==
    /\ [](\A f \in ProcessedFlushes :
             /\ (\E d \in DoneMsgs : r2c[d].flushId = f) =>
                   \A i \in ShimCallsOf(f) :
                      Cardinality({m \in CallbacksUpTo(DoneOf(f)) : r2c[m].id = rlog[i].shim})
                         >= Cardinality({j \in ShimCallsOf(f) : rlog[j].shim = rlog[i].shim})
             /\ BatchSettled(f) =>
                   /\ \E d \in DoneMsgs : r2c[d].flushId = f
                   /\ DoneOf(f) <= r2cRead
                   /\ Len(called) >= Cardinality(CallbacksUpTo(DoneOf(f)))
                   /\ \A n \in 1..Cardinality(CallbacksUpTo(DoneOf(f))) :
                         called[n].func = idToCallback[NthCallback(n, 1).id])
    /\ [][/\ (ReceiverStep /\ c2r[c2rRead'].type = "cmds" /\ NewToController # << >>) =>
                LET new == NewToController
                IN  /\ \A n \in 1..(Len(new) - 1) : new[n].type = "callback"
                    /\ new[Len(new)].type = "callback" <=>
                          \E i \in 1..Len(rlog') :
                             rlog'[i].fid = c2r[c2rRead'].flushId /\ rlog'[i].st = "failed"
                    /\ new[Len(new)].type = "done" =>
                          new[Len(new)].flushId = c2r[c2rRead'].flushId
          /\ (called' # called \/ SettledGets' # SettledGets
                \/ SettledFlushes' # SettledFlushes) =>
                /\ DeliverStep
                /\ r2c[r2cRead'].type = "callback" =>
                      /\ called' = Append(called, [func |-> idToCallback[r2c[r2cRead'].id],
                                                   args |-> called'[Len(called')].args])
                      /\ UNCHANGED <<getSettled, flushSettled>>
                /\ r2c[r2cRead'].type = "done" =>
                      /\ called' = called
                      /\ SettledFlushes' = SettledFlushes \cup {r2c[r2cRead'].flushId}]_vars

\* A call of a batch called the shim of callback 0: the "callback" message
\* was posted ahead of the "done" message, the function was run, and the
\* "done" message is still on its way, the promise of the flush pending.
C38_Witness ==
    /\ Len(r2c) = 2
    /\ r2c[1].type = "callback" /\ r2c[1].id = 0
    /\ r2c[2].type = "done"
    /\ ShimCallsOf(r2c[2].flushId) # {}
    /\ r2cRead = 1
    /\ Len(called) = 1 /\ called[1].func = "f"
    /\ r2c[2].flushId \in pendingFlushResolves

\* The ids a value descriptor and a command refer to: the target id and the
\* ids of the Object and Property descriptors among the arguments or the
\* value.
DescriptorIds(d) == IF d.tag \in {1, 3} THEN {d.id} ELSE {}
CommandIds(cmd) ==
    {cmd.objectId}
    \cup (IF cmd.type \in {0, 3}
          THEN UNION {DescriptorIds(cmd.args[n]) : n \in 1..Len(cmd.args)}
          ELSE IF cmd.type = 1 THEN DescriptorIds(cmd.value) ELSE {})
BatchIds(cmds) == UNION {CommandIds(cmds[n]) : n \in 1..Len(cmds)}

\* The receiver is handed a batch after an earlier batch was aborted.
BatchAfterAbort ==
    /\ ReceiverStep
    /\ c2r[c2rRead'].type = "cmds"
    /\ AbortedFlushes # {}

\* This step posted the "done" message of the batch it was handed.
Acknowledges ==
    /\ Len(r2c') > Len(r2c)
    /\ r2c'[Len(r2c')].type = "done"
    /\ r2c'[Len(r2c')].flushId = c2r[c2rRead'].flushId

\* This step went through the commands of the batch it was handed, in order.
GoesThroughBatch ==
    /\ Len(rlog') = Len(rlog) + Len(c2r[c2rRead'].cmds)
    /\ \A n \in 1..Len(c2r[c2rRead'].cmds) :
          /\ rlog'[Len(rlog) + n].cmd = c2r[c2rRead'].cmds[n]
          /\ rlog'[Len(rlog) + n].fid = c2r[c2rRead'].flushId

\* C39: a batch handed to the receiver after an aborted batch, whose
\* commands refer only to ids that are in the id map, is run and
\* acknowledged with its flush id.
C39_BoundIdsAcknowledged ==
    [][(BatchAfterAbort /\ BatchIds(c2r[c2rRead'].cmds) \subseteq DOMAIN idMap) =>
          (GoesThroughBatch /\ Acknowledges /\ \A i \in NewEntries : rlog'[i].st = "ok")]_vars

\* C39 as the program has it: an aborted batch does not stop the receiver.
\* Every batch posted is handed to the receiver, in the order of the flush
\* ids, whatever became of the batches before it; the receiver goes through
\* its commands in order and acknowledges it with its own flush id exactly
\* when none of its own commands throws; the promise of its flush is then
\* resolved, while the promise of the aborted batch stays pending.
C39_AbortDoesNotBlock ==
    /\ [][BatchAfterAbort =>
             /\ GoesThroughBatch
             /\ c2r[c2rRead'].flushId = Cardinality(ProcessedFlushes)
             /\ Acknowledges <=> \A i \in NewEntries : rlog'[i].st = "ok"
             /\ Acknowledges =>
                   Len(r2c'[Len(r2c')].getResults) = Len(GetIdsOf(c2r[c2rRead'].cmds))]_vars
    /\ [](\A f \in AbortedFlushes : f \in pendingFlushResolves /\ flushSettled[f] = 0)
    /\ \A g \in 0..MaxOps :
          /\ (g \in UsedFlushIds) ~> (g \in ProcessedFlushes)
          /\ (g \in ProcessedFlushes /\ ~Aborted(g)) ~> (g \in SettledFlushes)

\* The first batch was aborted and the promise of its flush is pending; the
\* second batch was run and acknowledged and the promise of its flush is
\* resolved.
C39_Witness ==
    /\ AbortedFlushes = {0}
    /\ 0 \in pendingFlushResolves
    /\ 1 \in ProcessedFlushes
    /\ flushSettled[1] = 1
    /\ \E d \in DeliveredDone : r2c[d].flushId = 1

====
